---- MODULE Spec2Model ----
(***************************************************************************)
(* A model of src/tls13_misc.c (CycloneSSL 1.9.0, TLS 1.3 helper           *)
(* functions): CertificateVerify signature generation and verification,    *)
(* PSK binder computation and the helpers they call.                       *)
(*                                                                         *)
(* Every handler of the source is an operator that maps the TLS context,   *)
(* the call's arguments and the outcome of the collaborators it calls      *)
(* (allocator, hash, HKDF, signature primitives) to the call's result, the *)
(* context after the call and the ordered list of collaborator calls it    *)
(* made. An action applies one handler to one endpoint and records the     *)
(* call in the variable last.                                              *)
(***************************************************************************)
EXTENDS Integers, Sequences, FiniteSets, TLC

VARIABLES
    ctx,      \* [Endpoints -> TlsContext]: the TLS context of each endpoint
    build,    \* the library configuration (which hash algorithms are compiled in)
    wire,     \* the CertificateVerify records emitted so far, by endpoint
    last,     \* the most recent call: arguments, result, collaborator calls
    prev,     \* the call whose output the last call was given, or the call of
              \* the same operation by the same endpoint before it if no
              \* collaborator ran out of resources during it
    hello,    \* the ClientHello whose PSK binder is computed
    fed       \* what the handshake has fed to each endpoint's transcript
              \* since the connection started

vars == <<ctx, build, wire, last, prev, hello, fed>>

-----------------------------------------------------------------------------
(* Bounds of the model *)

\* Longest signature value of a record the adversary hands to verify
MaxValueLen == 1
\* Number of bytes fed to a transcript before the calls that are checked
MaxTranscriptLen == 1

-----------------------------------------------------------------------------
(* Values *)

NULL == "NULL"

NO_ERROR == "NO_ERROR"
ERROR_FAILURE == "ERROR_FAILURE"
ERROR_INVALID_PARAMETER == "ERROR_INVALID_PARAMETER"
ERROR_INVALID_LENGTH == "ERROR_INVALID_LENGTH"
ERROR_OUT_OF_MEMORY == "ERROR_OUT_OF_MEMORY"
ERROR_DECODING_FAILED == "ERROR_DECODING_FAILED"
ERROR_INVALID_SIGNATURE == "ERROR_INVALID_SIGNATURE"
ERROR_UNSUPPORTED_SIGNATURE_ALGO == "ERROR_UNSUPPORTED_SIGNATURE_ALGO"
ERROR_INVALID_KEY == "ERROR_INVALID_KEY"

TLS_CONNECTION_END_CLIENT == "client"
TLS_CONNECTION_END_SERVER == "server"
Endpoints == {TLS_CONNECTION_END_CLIENT, TLS_CONNECTION_END_SERVER}
Peer(e) == IF e = TLS_CONNECTION_END_CLIENT
           THEN TLS_CONNECTION_END_SERVER
           ELSE TLS_CONNECTION_END_CLIENT

\* An optional byte buffer (a pointer that may be NULL): <<>> or <<bytes>>
NullPtr == <<>>
Ptr(x) == <<x>>

\* 16-bit and 24-bit big-endian fields
HTONS(x) == <<(x \div 256) % 256, x % 256>>
ntohs(b) == b[1] * 256 + b[2]
STORE24BE(x) == <<(x \div 65536) % 256, (x \div 256) % 256, x % 256>>

\* SignatureScheme values on the wire (RFC 8446, 4.2.3)
TLS_SIGN_SCHEME_RSA_PSS_RSAE_SHA256 == 8 * 256 + 4
TLS_SIGN_SCHEME_RSA_PSS_RSAE_SHA384 == 8 * 256 + 5
TLS_SIGN_SCHEME_RSA_PSS_RSAE_SHA512 == 8 * 256 + 6
TLS_SIGN_SCHEME_ED25519 == 8 * 256 + 7
TLS_SIGN_SCHEME_ED448 == 8 * 256 + 8
TLS_SIGN_SCHEME_RSA_PSS_PSS_SHA256 == 8 * 256 + 9
TLS_SIGN_SCHEME_RSA_PSS_PSS_SHA384 == 8 * 256 + 10
TLS_SIGN_SCHEME_RSA_PSS_PSS_SHA512 == 8 * 256 + 11
TLS_SIGN_SCHEME_ECDSA_SECP256R1_SHA256 == 4 * 256 + 3
TLS_SIGN_SCHEME_ECDSA_SECP384R1_SHA384 == 5 * 256 + 3
TLS_SIGN_SCHEME_ECDSA_SECP521R1_SHA512 == 6 * 256 + 3
\* a scheme TLS 1.3 does not use for CertificateVerify (rsa_pkcs1_sha256)
TLS_SIGN_SCHEME_RSA_PKCS1_SHA256 == 4 * 256 + 1

RsaPssRsaeSchemes == {TLS_SIGN_SCHEME_RSA_PSS_RSAE_SHA256,
                      TLS_SIGN_SCHEME_RSA_PSS_RSAE_SHA384,
                      TLS_SIGN_SCHEME_RSA_PSS_RSAE_SHA512}
RsaPssPssSchemes == {TLS_SIGN_SCHEME_RSA_PSS_PSS_SHA256,
                     TLS_SIGN_SCHEME_RSA_PSS_PSS_SHA384,
                     TLS_SIGN_SCHEME_RSA_PSS_PSS_SHA512}
EcdsaSchemes == {TLS_SIGN_SCHEME_ECDSA_SECP256R1_SHA256,
                 TLS_SIGN_SCHEME_ECDSA_SECP384R1_SHA384,
                 TLS_SIGN_SCHEME_ECDSA_SECP521R1_SHA512}
KnownSchemes == RsaPssRsaeSchemes \cup RsaPssPssSchemes \cup EcdsaSchemes
                  \cup {TLS_SIGN_SCHEME_ED25519, TLS_SIGN_SCHEME_ED448}

\* Named groups of the certificate curves (TLS_GROUP_*)
TLS_GROUP_SECP224R1 == 21
TLS_GROUP_SECP256R1 == 23
TLS_GROUP_SECP384R1 == 24
TLS_GROUP_SECP521R1 == 25
TLS_GROUP_NONE == 0

\* Certificate types (TlsCertificateType)
TLS_CERT_NONE == "TLS_CERT_NONE"
TLS_CERT_RSA_SIGN == "TLS_CERT_RSA_SIGN"
TLS_CERT_DSS_SIGN == "TLS_CERT_DSS_SIGN"
TLS_CERT_ECDSA_SIGN == "TLS_CERT_ECDSA_SIGN"
TLS_CERT_RSA_PSS_SIGN == "TLS_CERT_RSA_PSS_SIGN"
TLS_CERT_ED25519_SIGN == "TLS_CERT_ED25519_SIGN"
TLS_CERT_ED448_SIGN == "TLS_CERT_ED448_SIGN"

\* Hash algorithm identifiers (TlsHashAlgo) and descriptors (HashAlgo)
TLS_HASH_ALGO_NONE == "NONE"
TLS_HASH_ALGO_SHA1 == "SHA1"
TLS_HASH_ALGO_SHA256 == "SHA256"
TLS_HASH_ALGO_SHA384 == "SHA384"
TLS_HASH_ALGO_SHA512 == "SHA512"
Tls13Hashes == {TLS_HASH_ALGO_SHA256, TLS_HASH_ALGO_SHA384, TLS_HASH_ALGO_SHA512}

-----------------------------------------------------------------------------
(* Collaborators: hash, allocator and signature primitives.  Their code is *)
(* not part of tls13_misc.c; they are modelled by their contract, with a   *)
(* small deterministic function standing for each cryptographic function.  *)

\* hash->digestSize
DigestSize(h) ==
    CASE h = TLS_HASH_ALGO_SHA256 -> 32
      [] h = TLS_HASH_ALGO_SHA384 -> 48
      [] h = TLS_HASH_ALGO_SHA512 -> 64

HashTag(h) ==
    CASE h = TLS_HASH_ALGO_SHA256 -> 4
      [] h = TLS_HASH_ALGO_SHA384 -> 5
      [] h = TLS_HASH_ALGO_SHA512 -> 6

\* tlsGetHashAlgo: the descriptor of a compiled-in hash algorithm, else NULL
tlsGetHashAlgo(id) == IF id \in build.hashes THEN id ELSE NULL

\* The compression of bytes lo..hi of a byte string to one number: sensitive
\* to every byte of the range and to the order of the bytes
RECURSIVE MixRange(_, _, _)
MixRange(s, lo, hi) ==
    IF lo > hi THEN 0
    ELSE IF lo = hi THEN s[lo] + 1
    ELSE LET mid == (lo + hi) \div 2
         IN  (MixRange(s, lo, mid) * 31 + MixRange(s, mid + 1, hi) * 17
                + (hi - lo)) % 251

Min(a, b) == IF a <= b THEN a ELSE b

\* The compression function of the model's hash functions: of a string of at
\* most 16 bytes it compresses every byte; of a longer string the length and
\* three windows (the head, the bytes where the two context strings differ,
\* the separator and the head of the transcript hash)
Mix(tag, s) ==
    IF Len(s) <= 16
    THEN (MixRange(s, 1, Len(s)) * 7 + Len(s) * 3 + tag) % 251
    ELSE (MixRange(s, 1, 8) * 7 + MixRange(s, 72, Min(80, Len(s))) * 11
            + MixRange(s, 97, Min(104, Len(s))) * 13 + Len(s) * 3 + tag) % 251

\* hash->init, hash->update, hash->final on a hash context: the context holds
\* the bytes fed so far, final yields digestSize bytes
HashInit == <<>>
HashUpdate(st, data) == st \o data
HashFinal(h, st) ==
    LET m == Mix(HashTag(h), st)
    IN  [i \in 1..DigestSize(h) |-> (m + 7 * i) % 256]

\* hashAlgo->compute (one-shot hash)
HashCompute(h, data) == HashFinal(h, HashUpdate(HashInit, data))

\* tlsFinalizeTranscriptHash: the digest of a copy of the transcript context
tlsFinalizeTranscriptHash(c, h, hashContext, env) ==
    IF env.finalize # NO_ERROR
    THEN [error |-> env.finalize, digest |-> <<>>]
    ELSE [error |-> NO_ERROR, digest |-> HashFinal(h, hashContext[1])]

\* The name of the curve of a named group (EcCurveInfo.name)
CurveName(g) ==
    CASE g = TLS_GROUP_SECP224R1 -> "secp224r1"
      [] g = TLS_GROUP_SECP256R1 -> "secp256r1"
      [] g = TLS_GROUP_SECP384R1 -> "secp384r1"
      [] g = TLS_GROUP_SECP521R1 -> "secp521r1"
      [] OTHER -> NULL

CurveTag(name) ==
    CASE name = "secp224r1" -> 21
      [] name = "secp256r1" -> 23
      [] name = "secp384r1" -> 24
      [] name = "secp521r1" -> 25
      [] OTHER -> 0

\* A signature value: determined by the algorithm, its parameter (hash or
\* curve), the key pair and the signed bytes; only the holder of key signs
Signature(family, param, key, msg) == <<family, param, key, Mix(family, msg)>>

\* rsassaPssSign / rsassaPssVerify (salt length = digest size)
rsassaPssSign(key, h, digest, env) ==
    IF env.prim # NO_ERROR
    THEN [error |-> env.prim, value |-> <<>>]
    ELSE [error |-> NO_ERROR, value |-> Signature(1, HashTag(h), key, digest)]

rsassaPssVerify(key, h, digest, sig, env) ==
    IF env.prim # NO_ERROR THEN env.prim
    ELSE IF sig = Signature(1, HashTag(h), key, digest) THEN NO_ERROR
    ELSE ERROR_INVALID_SIGNATURE

\* tlsGenerateEcdsaSignature / tlsVerifyEcdsaSignature: the curve and the key
\* are those of the local certificate, resp. of the peer's certificate
tlsGenerateEcdsaSignature(c, digest, env) ==
    IF env.prim # NO_ERROR
    THEN [error |-> env.prim, value |-> <<>>]
    ELSE [error |-> NO_ERROR,
          value |-> Signature(2, CurveTag(CurveName(c.cert.namedCurve)),
                              c.cert.privateKey, digest)]

tlsVerifyEcdsaSignature(c, digest, sig, env) ==
    IF env.prim # NO_ERROR THEN env.prim
    ELSE IF sig = Signature(2, CurveTag(c.peerEcParams.name),
                            c.peerEcPublicKey, digest) THEN NO_ERROR
    ELSE ERROR_INVALID_SIGNATURE

\* tlsGenerateEddsaSignature / tlsVerifyEddsaSignature (PureEdDSA): the
\* variant is that of the local certificate, resp. of the peer's certificate
EddsaTag(type) ==
    CASE type = TLS_CERT_ED25519_SIGN -> 7
      [] type = TLS_CERT_ED448_SIGN -> 8
      [] OTHER -> 0

tlsGenerateEddsaSignature(c, msg, env) ==
    IF env.prim # NO_ERROR
    THEN [error |-> env.prim, value |-> <<>>]
    ELSE IF EddsaTag(c.cert.type) = 0
    THEN [error |-> ERROR_UNSUPPORTED_SIGNATURE_ALGO, value |-> <<>>]
    ELSE [error |-> NO_ERROR,
          value |-> Signature(3, EddsaTag(c.cert.type), c.cert.privateKey, msg)]

tlsVerifyEddsaSignature(c, msg, sig, env) ==
    IF env.prim # NO_ERROR THEN env.prim
    ELSE IF /\ EddsaTag(c.peerCertType) # 0
            /\ sig = Signature(3, EddsaTag(c.peerCertType), c.peerEcPublicKey, msg)
    THEN NO_ERROR
    ELSE ERROR_INVALID_SIGNATURE

\* The outcome of the collaborators of one call: whether tlsAllocMem returns
\* a buffer, and the error (NO_ERROR: none) each fallible collaborator returns
\* for a reason of its own
EnvOk == [alloc |-> TRUE, finalize |-> NO_ERROR, compute |-> NO_ERROR,
          import |-> NO_ERROR, prim |-> NO_ERROR, extract |-> NO_ERROR,
          derive |-> NO_ERROR, expand |-> NO_ERROR, hmac |-> NO_ERROR]
Envs == {EnvOk,
         [EnvOk EXCEPT !.alloc = FALSE],
         [EnvOk EXCEPT !.finalize = ERROR_OUT_OF_MEMORY],
         [EnvOk EXCEPT !.compute = ERROR_OUT_OF_MEMORY],
         [EnvOk EXCEPT !.import = ERROR_INVALID_KEY],
         [EnvOk EXCEPT !.prim = ERROR_OUT_OF_MEMORY]}

\* One collaborator call, as recorded in a call's list of events
Event(name, arg, ret) == [name |-> name, arg |-> arg, ret |-> ret]
EventNames(events) == {events[i].name : i \in 1..Len(events)}

-----------------------------------------------------------------------------
(* Content covered by the CertificateVerify signature *)

\* "TLS 1.3, client CertificateVerify" and "TLS 1.3, server CertificateVerify"
ClientContextString ==
    <<84, 76, 83, 32, 49, 46, 51, 44, 32, 99, 108, 105, 101, 110, 116, 32,
      67, 101, 114, 116, 105, 102, 105, 99, 97, 116, 101, 86, 101, 114, 105,
      102, 121>>
ServerContextString ==
    <<84, 76, 83, 32, 49, 46, 51, 44, 32, 115, 101, 114, 118, 101, 114, 32,
      67, 101, 114, 116, 105, 102, 105, 99, 97, 116, 101, 86, 101, 114, 105,
      102, 121>>

\* an allocated buffer of n bytes, not yet written (-1: indeterminate)
Indeterminate == [i \in 1..(98 + 64) |-> -1]
AllocBuffer(n) == SubSeq(Indeterminate, 1, n)
\* memset(buffer + off, value, count) and memcpy(buffer + off, src, count)
Memset(buffer, off, value, count) ==
    SubSeq(buffer, 1, off) \o [i \in 1..count |-> value]
        \o SubSeq(buffer, off + count + 1, Len(buffer))
Memcpy(buffer, off, src, count) ==
    SubSeq(buffer, 1, off) \o SubSeq(src, 1, count)
        \o SubSeq(buffer, off + count + 1, Len(buffer))

\* the context string sign appends: that of the local role
SignContextString(entity) ==
    IF entity = TLS_CONNECTION_END_CLIENT
    THEN ClientContextString ELSE ServerContextString

\* A verifier that appends the context string of its own role
VerifyContextStringOwnRole(entity) == SignContextString(entity)

\* the context string verify appends: that of the peer's role
VerifyContextString(entity) ==
    IF entity = TLS_CONNECTION_END_CLIENT
    THEN ServerContextString ELSE ClientContextString

\* the buffer before the transcript hash is appended
ContentPrefix(n, contextString) ==
    LET b0 == AllocBuffer(n)
        b1 == Memset(b0, 0, 32, 64)
        b2 == Memcpy(b1, 64, contextString, 33)
    IN  Memset(b2, 97, 0, 1)

\* the buffer the signature covers: the transcript hash written at offset 98
SignatureContent(n, contextString, digest) ==
    Memcpy(ContentPrefix(n, contextString), 98, digest, Len(digest))

-----------------------------------------------------------------------------
(* The TLS context *)

\* The fields of TlsContext that tls13_misc.c reads or writes.
\* context->clientVerifyData is scratch of one sign or verify call (written
\* before it is read on every path): the value a call leaves there is part
\* of the call's record, not of the context.
DefaultContext(e) ==
    [entity |-> e,
     prfHashAlgo |-> TLS_HASH_ALGO_SHA256,
     handshakeHashContext |-> Ptr(<<1>>),
     transportProtocol |-> "STREAM",
     txMsgSeq |-> 0,
     psk |-> NullPtr,
     pskLen |-> 0,
     pskHashAlgo |-> TLS_HASH_ALGO_NONE,
     pskIdentity |-> NullPtr,
     ticket |-> NullPtr,
     ticketLen |-> 0,
     ticketPsk |-> <<>>,
     ticketPskLen |-> 0,
     ticketHashAlgo |-> TLS_HASH_ALGO_NONE,
     secret |-> <<>>,
     namedGroup |-> TLS_GROUP_NONE,
     ecdhContext |-> [params |-> TLS_GROUP_NONE, da |-> 0, qb |-> 0],
     dhContext |-> [params |-> TLS_GROUP_NONE, xa |-> 0, yb |-> 0],
     premasterSecret |-> <<>>,
     premasterSecretLen |-> 0,
     signAlgo |-> "TLS_SIGN_ALGO_ANONYMOUS",
     signHashAlgo |-> TLS_HASH_ALGO_NONE,
     cert |-> [type |-> TLS_CERT_NONE, namedCurve |-> TLS_GROUP_NONE,
               privateKey |-> 0],
     peerCertType |-> TLS_CERT_NONE,
     peerEcParams |-> [name |-> NULL],
     peerRsaPublicKey |-> 0,
     peerEcPublicKey |-> 0]

NoCall == [op |-> "none"]

\* The ClientHello whose binder is computed: the endpoint it is at (the
\* client that builds it, the server that has received it), the arguments of
\* the computation
Hello(at, clientHello, clientHelloLen, truncatedClientHelloLen, binderLen) ==
    [at |-> at, clientHello |-> clientHello, clientHelloLen |-> clientHelloLen,
     truncatedClientHelloLen |-> truncatedClientHelloLen,
     binderLen |-> binderLen]

\* no ClientHello is being bound
NoHello == Hello("nobody", <<>>, 0, 0, 0)

\* What has been fed to a transcript: the bytes of the first ClientHello, once
\* it has been replaced with its hash (NullPtr before), and the bytes fed
\* since then
Fed(clientHello1, later) == [clientHello1 |-> clientHello1, later |-> later]
NothingFed == [e \in Endpoints |-> Fed(NullPtr, <<>>)]

-----------------------------------------------------------------------------
(* tls13VerifySignature *)

\* sizeof(Tls13DigitalSignature): algorithm (2 bytes) and length (2 bytes)
SizeofTls13DigitalSignature == 4

\* the fields of the digitally-signed element at p
SignatureAlgorithmField(p) == SubSeq(p, 1, 2)
SignatureLengthField(p) == SubSeq(p, 3, 4)
SignatureValueField(p) == SubSeq(p, 5, 4 + ntohs(SignatureLengthField(p)))

\* A length check that tolerates bytes after the declared value
VerifyCheckLengthTrailing(p, length) ==
    IF length < SizeofTls13DigitalSignature THEN ERROR_DECODING_FAILED
    ELSE IF length < SizeofTls13DigitalSignature + ntohs(SignatureLengthField(p))
    THEN ERROR_DECODING_FAILED
    ELSE NO_ERROR

\* Malformed CertificateVerify message?
VerifyCheckLength(p, length) ==
    IF length < SizeofTls13DigitalSignature THEN ERROR_DECODING_FAILED
    ELSE IF length # SizeofTls13DigitalSignature + ntohs(SignatureLengthField(p))
    THEN ERROR_DECODING_FAILED
    ELSE NO_ERROR

\* A mapping of the RSASSA-PSS schemes that does not look at the type of the
\* peer's certificate
VerifyRsaPssHashAlgoAnyCertificate(c, signAlgo) ==
    IF signAlgo \in {TLS_SIGN_SCHEME_RSA_PSS_RSAE_SHA256,
                     TLS_SIGN_SCHEME_RSA_PSS_PSS_SHA256}
    THEN tlsGetHashAlgo(TLS_HASH_ALGO_SHA256)
    ELSE IF signAlgo \in {TLS_SIGN_SCHEME_RSA_PSS_RSAE_SHA384,
                          TLS_SIGN_SCHEME_RSA_PSS_PSS_SHA384}
    THEN tlsGetHashAlgo(TLS_HASH_ALGO_SHA384)
    ELSE IF signAlgo \in {TLS_SIGN_SCHEME_RSA_PSS_RSAE_SHA512,
                          TLS_SIGN_SCHEME_RSA_PSS_PSS_SHA512}
    THEN tlsGetHashAlgo(TLS_HASH_ALGO_SHA512)
    ELSE NULL

\* RSASSA-PSS scheme: the hash algorithm used for signing, NULL when the
\* peer's certificate type does not fit the scheme
VerifyRsaPssHashAlgo(c, signAlgo) ==
    IF c.peerCertType = TLS_CERT_RSA_SIGN THEN
        IF signAlgo = TLS_SIGN_SCHEME_RSA_PSS_RSAE_SHA256
        THEN tlsGetHashAlgo(TLS_HASH_ALGO_SHA256)
        ELSE IF signAlgo = TLS_SIGN_SCHEME_RSA_PSS_RSAE_SHA384
        THEN tlsGetHashAlgo(TLS_HASH_ALGO_SHA384)
        ELSE IF signAlgo = TLS_SIGN_SCHEME_RSA_PSS_RSAE_SHA512
        THEN tlsGetHashAlgo(TLS_HASH_ALGO_SHA512)
        ELSE NULL
    ELSE IF c.peerCertType = TLS_CERT_RSA_PSS_SIGN THEN
        IF signAlgo = TLS_SIGN_SCHEME_RSA_PSS_PSS_SHA256
        THEN tlsGetHashAlgo(TLS_HASH_ALGO_SHA256)
        ELSE IF signAlgo = TLS_SIGN_SCHEME_RSA_PSS_PSS_SHA384
        THEN tlsGetHashAlgo(TLS_HASH_ALGO_SHA384)
        ELSE IF signAlgo = TLS_SIGN_SCHEME_RSA_PSS_PSS_SHA512
        THEN tlsGetHashAlgo(TLS_HASH_ALGO_SHA512)
        ELSE NULL
    ELSE NULL

\* ECDSA scheme: the hash algorithm used for signing, NULL when the peer's
\* certificate type or curve does not fit the scheme
VerifyEcdsaHashAlgo(c, signAlgo) ==
    IF c.peerCertType = TLS_CERT_ECDSA_SIGN THEN
        IF c.peerEcParams.name = NULL THEN NULL
        ELSE IF /\ signAlgo = TLS_SIGN_SCHEME_ECDSA_SECP256R1_SHA256
                /\ c.peerEcParams.name = "secp256r1"
        THEN tlsGetHashAlgo(TLS_HASH_ALGO_SHA256)
        ELSE IF /\ signAlgo = TLS_SIGN_SCHEME_ECDSA_SECP384R1_SHA384
                /\ c.peerEcParams.name = "secp384r1"
        THEN tlsGetHashAlgo(TLS_HASH_ALGO_SHA384)
        ELSE IF /\ signAlgo = TLS_SIGN_SCHEME_ECDSA_SECP521R1_SHA512
                /\ c.peerEcParams.name = "secp521r1"
        THEN tlsGetHashAlgo(TLS_HASH_ALGO_SHA512)
        ELSE NULL
    ELSE NULL

\* the offsets of p occupied by the signature value
ValueOffsets(p) == {4 + i : i \in 0..(ntohs(SignatureLengthField(p)) - 1)}

\* what the dispatch on the scheme yields: the status code, the collaborators
\* called, the offsets of p read and the pre-hash left in clientVerifyData
Dispatched(error, events, reads, cvd) ==
    [error |-> error, events |-> events, reads |-> reads,
     clientVerifyData |-> cvd]

\* Pre-hash the content covered by the signature, then verify the RSASSA-PSS
\* signature
VerifyRsaPss(c, hashAlgo, buffer, p, env) ==
    IF hashAlgo = NULL
    THEN Dispatched(ERROR_INVALID_SIGNATURE, <<>>, {}, <<>>)
    ELSE IF env.compute # NO_ERROR
    THEN Dispatched(env.compute,
                    <<Event("hashAlgo->compute", hashAlgo, env.compute)>>,
                    {}, <<>>)
    ELSE LET cvd == HashCompute(hashAlgo, buffer)
             ret == rsassaPssVerify(c.peerRsaPublicKey, hashAlgo, cvd,
                                    SignatureValueField(p), env)
         IN  Dispatched(ret,
                        <<Event("hashAlgo->compute", hashAlgo, NO_ERROR),
                          Event("rsassaPssVerify", hashAlgo, ret)>>,
                        ValueOffsets(p), cvd)

\* Pre-hash the content covered by the signature, then verify the ECDSA
\* signature
VerifyEcdsa(c, hashAlgo, buffer, p, env) ==
    IF hashAlgo = NULL
    THEN Dispatched(ERROR_INVALID_SIGNATURE, <<>>, {}, <<>>)
    ELSE IF env.compute # NO_ERROR
    THEN Dispatched(env.compute,
                    <<Event("hashAlgo->compute", hashAlgo, env.compute)>>,
                    {}, <<>>)
    ELSE LET cvd == HashCompute(hashAlgo, buffer)
             ret == tlsVerifyEcdsaSignature(c, cvd, SignatureValueField(p), env)
         IN  Dispatched(ret,
                        <<Event("hashAlgo->compute", hashAlgo, NO_ERROR),
                          Event("tlsVerifyEcdsaSignature", hashAlgo, ret)>>,
                        ValueOffsets(p), cvd)

\* An EdDSA branch that reports a certificate of another type as an
\* unsupported algorithm
VerifyEddsaUnsupported(c, certType, buffer, p, env) ==
    IF c.peerCertType = certType
    THEN LET ret == tlsVerifyEddsaSignature(c, buffer, SignatureValueField(p), env)
         IN  Dispatched(ret, <<Event("tlsVerifyEddsaSignature", NULL, ret)>>,
                        ValueOffsets(p), <<>>)
    ELSE Dispatched(ERROR_UNSUPPORTED_SIGNATURE_ALGO, <<>>, {}, <<>>)

\* Ed25519 or Ed448 scheme: the peer's certificate type is enforced, then the
\* signature is verified over the content itself (PureEdDSA)
VerifyEddsa(c, certType, buffer, p, env) ==
    IF c.peerCertType = certType
    THEN LET ret == tlsVerifyEddsaSignature(c, buffer, SignatureValueField(p), env)
         IN  Dispatched(ret, <<Event("tlsVerifyEddsaSignature", NULL, ret)>>,
                        ValueOffsets(p), <<>>)
    ELSE Dispatched(ERROR_INVALID_SIGNATURE, <<>>, {}, <<>>)

\* The dispatch on the signature scheme of the record
VerifyDispatch(c, buffer, p, env) ==
    LET signAlgo == ntohs(SignatureAlgorithmField(p))
    IN  IF signAlgo \in RsaPssRsaeSchemes \cup RsaPssPssSchemes
        THEN VerifyRsaPss(c, VerifyRsaPssHashAlgo(c, signAlgo), buffer, p, env)
        ELSE IF signAlgo \in EcdsaSchemes
        THEN VerifyEcdsa(c, VerifyEcdsaHashAlgo(c, signAlgo), buffer, p, env)
        ELSE IF signAlgo = TLS_SIGN_SCHEME_ED25519
        THEN VerifyEddsa(c, TLS_CERT_ED25519_SIGN, buffer, p, env)
        ELSE IF signAlgo = TLS_SIGN_SCHEME_ED448
        THEN VerifyEddsa(c, TLS_CERT_ED448_SIGN, buffer, p, env)
        ELSE Dispatched(ERROR_INVALID_SIGNATURE, <<>>, {}, <<>>)

\* the length of the content covered by the signature
ContentLength(hashAlgo) == DigestSize(hashAlgo) + 98

\* what a verify call yields
VerifyResult(error, events, reads, content, cvd) ==
    [error |-> error, events |-> events, reads |-> reads,
     content |-> content, clientVerifyData |-> cvd]

\* the offsets of p read by the length check
LengthReads(length) ==
    IF length < SizeofTls13DigitalSignature THEN {} ELSE {2, 3}

tls13VerifySignature(c, p, length, env) ==
    IF VerifyCheckLength(p, length) # NO_ERROR
    THEN VerifyResult(VerifyCheckLength(p, length), <<>>, LengthReads(length),
                      <<>>, <<>>)
    ELSE IF c.prfHashAlgo = NULL
    THEN VerifyResult(ERROR_FAILURE, <<Event("prfHashAlgo", NULL, NULL)>>,
                      {2, 3}, <<>>, <<>>)
    ELSE LET hashAlgo == c.prfHashAlgo
             n == ContentLength(hashAlgo)
             consulted == <<Event("prfHashAlgo", hashAlgo, NULL)>>
         IN  IF ~env.alloc
             THEN VerifyResult(ERROR_OUT_OF_MEMORY,
                      consulted \o <<Event("tlsAllocMem", NULL, NULL)>>,
                      {2, 3}, <<>>, <<>>)
             ELSE LET fin == tlsFinalizeTranscriptHash(c, hashAlgo,
                                 c.handshakeHashContext, env)
                      head == consulted \o
                          <<Event("tlsAllocMem", NULL, "buffer"),
                            Event("tlsFinalizeTranscriptHash", hashAlgo, fin.error)>>
                      free == <<Event("tlsFreeMem", NULL, "buffer")>>
                  IN  IF fin.error # NO_ERROR
                      THEN VerifyResult(fin.error, head \o free, {2, 3},
                               ContentPrefix(n, VerifyContextString(c.entity)),
                               <<>>)
                      ELSE LET buffer == SignatureContent(n,
                                   VerifyContextString(c.entity), fin.digest)
                               d == VerifyDispatch(c, buffer, p, env)
                           IN  VerifyResult(d.error, head \o d.events \o free,
                                   {0, 1, 2, 3} \cup d.reads, buffer,
                                   d.clientVerifyData)

-----------------------------------------------------------------------------
(* tls13GenerateSignature *)

\* Signature algorithms (TlsSignatureAlgo) the context may hold
TLS_SIGN_ALGO_ANONYMOUS == "TLS_SIGN_ALGO_ANONYMOUS"
TLS_SIGN_ALGO_RSA == "TLS_SIGN_ALGO_RSA"
TLS_SIGN_ALGO_DSA == "TLS_SIGN_ALGO_DSA"
TLS_SIGN_ALGO_ECDSA == "TLS_SIGN_ALGO_ECDSA"
TLS_SIGN_ALGO_RSA_PSS_RSAE_SHA256 == "TLS_SIGN_ALGO_RSA_PSS_RSAE_SHA256"
TLS_SIGN_ALGO_RSA_PSS_RSAE_SHA384 == "TLS_SIGN_ALGO_RSA_PSS_RSAE_SHA384"
TLS_SIGN_ALGO_RSA_PSS_RSAE_SHA512 == "TLS_SIGN_ALGO_RSA_PSS_RSAE_SHA512"
TLS_SIGN_ALGO_ED25519 == "TLS_SIGN_ALGO_ED25519"
TLS_SIGN_ALGO_ED448 == "TLS_SIGN_ALGO_ED448"
TLS_SIGN_ALGO_RSA_PSS_PSS_SHA256 == "TLS_SIGN_ALGO_RSA_PSS_PSS_SHA256"
TLS_SIGN_ALGO_RSA_PSS_PSS_SHA384 == "TLS_SIGN_ALGO_RSA_PSS_PSS_SHA384"
TLS_SIGN_ALGO_RSA_PSS_PSS_SHA512 == "TLS_SIGN_ALGO_RSA_PSS_PSS_SHA512"

RsaPssSignAlgos == {TLS_SIGN_ALGO_RSA_PSS_RSAE_SHA256,
                    TLS_SIGN_ALGO_RSA_PSS_RSAE_SHA384,
                    TLS_SIGN_ALGO_RSA_PSS_RSAE_SHA512,
                    TLS_SIGN_ALGO_RSA_PSS_PSS_SHA256,
                    TLS_SIGN_ALGO_RSA_PSS_PSS_SHA384,
                    TLS_SIGN_ALGO_RSA_PSS_PSS_SHA512}

\* what the selection of the scheme yields: the algorithm field written to
\* the record (<<>>: not written), the hash algorithm, the status code
Selected(algorithm, hashAlgo, error) ==
    [algorithm |-> algorithm, hashAlgo |-> hashAlgo, error |-> error]

\* RSA-PSS: the algorithm field and the hash algorithm of the scheme
SignSelectRsaPss(c) ==
    IF c.signAlgo = TLS_SIGN_ALGO_RSA_PSS_RSAE_SHA256
    THEN Selected(HTONS(TLS_SIGN_SCHEME_RSA_PSS_RSAE_SHA256),
                  tlsGetHashAlgo(TLS_HASH_ALGO_SHA256), NO_ERROR)
    ELSE IF c.signAlgo = TLS_SIGN_ALGO_RSA_PSS_RSAE_SHA384
    THEN Selected(HTONS(TLS_SIGN_SCHEME_RSA_PSS_RSAE_SHA384),
                  tlsGetHashAlgo(TLS_HASH_ALGO_SHA384), NO_ERROR)
    ELSE IF c.signAlgo = TLS_SIGN_ALGO_RSA_PSS_RSAE_SHA512
    THEN Selected(HTONS(TLS_SIGN_SCHEME_RSA_PSS_RSAE_SHA512),
                  tlsGetHashAlgo(TLS_HASH_ALGO_SHA512), NO_ERROR)
    ELSE IF c.signAlgo = TLS_SIGN_ALGO_RSA_PSS_PSS_SHA256
    THEN Selected(HTONS(TLS_SIGN_SCHEME_RSA_PSS_PSS_SHA256),
                  tlsGetHashAlgo(TLS_HASH_ALGO_SHA256), NO_ERROR)
    ELSE IF c.signAlgo = TLS_SIGN_ALGO_RSA_PSS_PSS_SHA384
    THEN Selected(HTONS(TLS_SIGN_SCHEME_RSA_PSS_PSS_SHA384),
                  tlsGetHashAlgo(TLS_HASH_ALGO_SHA384), NO_ERROR)
    ELSE IF c.signAlgo = TLS_SIGN_ALGO_RSA_PSS_PSS_SHA512
    THEN Selected(HTONS(TLS_SIGN_SCHEME_RSA_PSS_PSS_SHA512),
                  tlsGetHashAlgo(TLS_HASH_ALGO_SHA512), NO_ERROR)
    ELSE Selected(<<>>, c.prfHashAlgo, ERROR_UNSUPPORTED_SIGNATURE_ALGO)

\* A selection of the ECDSA scheme by the curve of the certificate alone
SignSelectEcdsaByCurve(c) ==
    IF c.cert.namedCurve = TLS_GROUP_SECP256R1
    THEN Selected(HTONS(TLS_SIGN_SCHEME_ECDSA_SECP256R1_SHA256),
                  tlsGetHashAlgo(TLS_HASH_ALGO_SHA256), NO_ERROR)
    ELSE IF c.cert.namedCurve = TLS_GROUP_SECP384R1
    THEN Selected(HTONS(TLS_SIGN_SCHEME_ECDSA_SECP384R1_SHA384),
                  tlsGetHashAlgo(TLS_HASH_ALGO_SHA384), NO_ERROR)
    ELSE IF c.cert.namedCurve = TLS_GROUP_SECP521R1
    THEN Selected(HTONS(TLS_SIGN_SCHEME_ECDSA_SECP521R1_SHA512),
                  tlsGetHashAlgo(TLS_HASH_ALGO_SHA512), NO_ERROR)
    ELSE Selected(<<>>, c.prfHashAlgo, ERROR_UNSUPPORTED_SIGNATURE_ALGO)

\* ECDSA: the algorithm field and the hash algorithm, by the curve of the
\* certificate and the negotiated signature hash
SignSelectEcdsa(c) ==
    IF /\ c.cert.namedCurve = TLS_GROUP_SECP256R1
       /\ c.signHashAlgo = TLS_HASH_ALGO_SHA256
    THEN Selected(HTONS(TLS_SIGN_SCHEME_ECDSA_SECP256R1_SHA256),
                  tlsGetHashAlgo(TLS_HASH_ALGO_SHA256), NO_ERROR)
    ELSE IF /\ c.cert.namedCurve = TLS_GROUP_SECP384R1
            /\ c.signHashAlgo = TLS_HASH_ALGO_SHA384
    THEN Selected(HTONS(TLS_SIGN_SCHEME_ECDSA_SECP384R1_SHA384),
                  tlsGetHashAlgo(TLS_HASH_ALGO_SHA384), NO_ERROR)
    ELSE IF /\ c.cert.namedCurve = TLS_GROUP_SECP521R1
            /\ c.signHashAlgo = TLS_HASH_ALGO_SHA512
    THEN Selected(HTONS(TLS_SIGN_SCHEME_ECDSA_SECP521R1_SHA512),
                  tlsGetHashAlgo(TLS_HASH_ALGO_SHA512), NO_ERROR)
    ELSE Selected(<<>>, c.prfHashAlgo, ERROR_UNSUPPORTED_SIGNATURE_ALGO)

\* EdDSA: the algorithm field (no pre-hash: the hash algorithm is not used)
SignSelectEddsa(c) ==
    IF c.signAlgo = TLS_SIGN_ALGO_ED25519
    THEN Selected(HTONS(TLS_SIGN_SCHEME_ED25519), c.prfHashAlgo, NO_ERROR)
    ELSE IF c.signAlgo = TLS_SIGN_ALGO_ED448
    THEN Selected(HTONS(TLS_SIGN_SCHEME_ED448), c.prfHashAlgo, NO_ERROR)
    ELSE Selected(<<>>, c.prfHashAlgo, ERROR_UNSUPPORTED_SIGNATURE_ALGO)

\* what the dispatch on the signature algorithm yields
Signed(error, events, algorithm, value, cvd) ==
    [error |-> error, events |-> events, algorithm |-> algorithm,
     value |-> value, clientVerifyData |-> cvd]

\* An RSA-PSS path that returns as soon as the import of the private key
\* fails
SignRsaPssEarlyReturn(c, buffer, env) ==
    LET sel == SignSelectRsaPss(c)
        init == <<Event("rsaInitPrivateKey", NULL, "privateKey")>>
        free == <<Event("rsaFreePrivateKey", NULL, "privateKey")>>
        compute(ret) == <<Event("hashAlgo->compute", sel.hashAlgo, ret)>>
        import(ret) == <<Event("pemImportRsaPrivateKey", NULL, ret)>>
    IN  IF sel.error # NO_ERROR
        THEN Signed(sel.error, init \o free, sel.algorithm, <<>>, <<>>)
        ELSE IF sel.hashAlgo = NULL
        THEN Signed(ERROR_UNSUPPORTED_SIGNATURE_ALGO, init \o free,
                    sel.algorithm, <<>>, <<>>)
        ELSE IF env.compute # NO_ERROR
        THEN Signed(env.compute, init \o compute(env.compute) \o free,
                    sel.algorithm, <<>>, <<>>)
        ELSE LET cvd == HashCompute(sel.hashAlgo, buffer)
             IN  IF env.import # NO_ERROR
                 THEN Signed(env.import,
                          init \o compute(NO_ERROR) \o import(env.import),
                          sel.algorithm, <<>>, cvd)
                 ELSE LET s == rsassaPssSign(c.cert.privateKey, sel.hashAlgo,
                                             cvd, env)
                      IN  Signed(s.error,
                              init \o compute(NO_ERROR) \o import(NO_ERROR)
                                \o <<Event("rsassaPssSign", sel.hashAlgo, s.error)>>
                                \o free,
                              sel.algorithm, s.value, cvd)

\* RSA-PSS: pre-hash, import of the private key, RSASSA-PSS signature
SignRsaPss(c, buffer, env) ==
    LET sel == SignSelectRsaPss(c)
        init == <<Event("rsaInitPrivateKey", NULL, "privateKey")>>
        free == <<Event("rsaFreePrivateKey", NULL, "privateKey")>>
        compute(ret) == <<Event("hashAlgo->compute", sel.hashAlgo, ret)>>
        import(ret) == <<Event("pemImportRsaPrivateKey", NULL, ret)>>
    IN  IF sel.error # NO_ERROR
        THEN Signed(sel.error, init \o free, sel.algorithm, <<>>, <<>>)
        ELSE IF sel.hashAlgo = NULL
        THEN Signed(ERROR_UNSUPPORTED_SIGNATURE_ALGO, init \o free,
                    sel.algorithm, <<>>, <<>>)
        ELSE IF env.compute # NO_ERROR
        THEN Signed(env.compute, init \o compute(env.compute) \o free,
                    sel.algorithm, <<>>, <<>>)
        ELSE LET cvd == HashCompute(sel.hashAlgo, buffer)
             IN  IF env.import # NO_ERROR
                 THEN Signed(env.import,
                          init \o compute(NO_ERROR) \o import(env.import) \o free,
                          sel.algorithm, <<>>, cvd)
                 ELSE LET s == rsassaPssSign(c.cert.privateKey, sel.hashAlgo,
                                             cvd, env)
                      IN  Signed(s.error,
                              init \o compute(NO_ERROR) \o import(NO_ERROR)
                                \o <<Event("rsassaPssSign", sel.hashAlgo, s.error)>>
                                \o free,
                              sel.algorithm, s.value, cvd)

\* ECDSA: pre-hash, ECDSA signature
SignEcdsa(c, buffer, env) ==
    LET sel == SignSelectEcdsa(c)
        compute(ret) == <<Event("hashAlgo->compute", sel.hashAlgo, ret)>>
    IN  IF sel.error # NO_ERROR
        THEN Signed(sel.error, <<>>, sel.algorithm, <<>>, <<>>)
        ELSE IF sel.hashAlgo = NULL
        THEN Signed(ERROR_UNSUPPORTED_SIGNATURE_ALGO, <<>>, sel.algorithm,
                    <<>>, <<>>)
        ELSE IF env.compute # NO_ERROR
        THEN Signed(env.compute, compute(env.compute), sel.algorithm,
                    <<>>, <<>>)
        ELSE LET cvd == HashCompute(sel.hashAlgo, buffer)
                 s == tlsGenerateEcdsaSignature(c, cvd, env)
             IN  Signed(s.error,
                     compute(NO_ERROR)
                       \o <<Event("tlsGenerateEcdsaSignature", sel.hashAlgo, s.error)>>,
                     sel.algorithm, s.value, cvd)

\* EdDSA: signature over the content itself (PureEdDSA)
SignEddsa(c, buffer, env) ==
    LET sel == SignSelectEddsa(c)
    IN  IF sel.error # NO_ERROR
        THEN Signed(sel.error, <<>>, sel.algorithm, <<>>, <<>>)
        ELSE LET s == tlsGenerateEddsaSignature(c, buffer, env)
             IN  Signed(s.error,
                     <<Event("tlsGenerateEddsaSignature", NULL, s.error)>>,
                     sel.algorithm, s.value, <<>>)

\* The dispatch on the signature algorithm of the context
SignDispatch(c, buffer, env) ==
    IF c.signAlgo \in RsaPssSignAlgos
    THEN SignRsaPss(c, buffer, env)
    ELSE IF c.signAlgo = TLS_SIGN_ALGO_ECDSA
    THEN SignEcdsa(c, buffer, env)
    ELSE IF c.signAlgo = TLS_SIGN_ALGO_ED25519 \/ c.signAlgo = TLS_SIGN_ALGO_ED448
    THEN SignEddsa(c, buffer, env)
    ELSE Signed(ERROR_UNSUPPORTED_SIGNATURE_ALGO, <<>>, <<>>, <<>>, <<>>)

\* the 2-byte length field that precedes the signature
SignLengthField(valueLen) == HTONS(valueLen)
\* A total length that leaves the 4-byte header out
SignTotalLengthOfValue(valueLen) == valueLen
\* the total length of the digitally-signed element
SignTotalLength(valueLen) == valueLen + SizeofTls13DigitalSignature

\* what a sign call yields: the fields written at p (<<>>: not written) and
\* the length reported (-1: not reported)
SignResult(error, events, algorithm, lengthField, value, length, content, cvd) ==
    [error |-> error, events |-> events, algorithm |-> algorithm,
     lengthField |-> lengthField, value |-> value, length |-> length,
     content |-> content, clientVerifyData |-> cvd]

tls13GenerateSignature(c, env) ==
    IF c.prfHashAlgo = NULL
    THEN SignResult(ERROR_FAILURE, <<Event("prfHashAlgo", NULL, NULL)>>,
                    <<>>, <<>>, <<>>, -1, <<>>, <<>>)
    ELSE LET hashAlgo == c.prfHashAlgo
             n == ContentLength(hashAlgo)
             consulted == <<Event("prfHashAlgo", hashAlgo, NULL)>>
         IN  IF ~env.alloc
             THEN SignResult(ERROR_OUT_OF_MEMORY,
                      consulted \o <<Event("tlsAllocMem", NULL, NULL)>>,
                      <<>>, <<>>, <<>>, -1, <<>>, <<>>)
             ELSE LET fin == tlsFinalizeTranscriptHash(c, hashAlgo,
                                 c.handshakeHashContext, env)
                      head == consulted \o
                          <<Event("tlsAllocMem", NULL, "buffer"),
                            Event("tlsFinalizeTranscriptHash", hashAlgo, fin.error)>>
                      free == <<Event("tlsFreeMem", NULL, "buffer")>>
                  IN  IF fin.error # NO_ERROR
                      THEN SignResult(fin.error, head \o free, <<>>, <<>>, <<>>,
                               -1, ContentPrefix(n, SignContextString(c.entity)),
                               <<>>)
                      ELSE LET buffer == SignatureContent(n,
                                   SignContextString(c.entity), fin.digest)
                               d == SignDispatch(c, buffer, env)
                           IN  IF d.error # NO_ERROR
                               THEN SignResult(d.error, head \o d.events \o free,
                                        d.algorithm, <<>>, d.value, -1, buffer,
                                        d.clientVerifyData)
                               ELSE SignResult(NO_ERROR, head \o d.events \o free,
                                        d.algorithm,
                                        SignLengthField(Len(d.value)), d.value,
                                        SignTotalLength(Len(d.value)), buffer,
                                        d.clientVerifyData)

\* the digitally-signed element a successful sign call leaves at p
EmittedRecord(r) == r.algorithm \o r.lengthField \o r.value

-----------------------------------------------------------------------------
(* The signature engine: configurations, records in flight, actions *)

\* The library configurations: every TLS 1.3 hash compiled in, or SHA-512
\* compiled out
Builds == {[hashes |-> Tls13Hashes],
           [hashes |-> {TLS_HASH_ALGO_SHA256, TLS_HASH_ALGO_SHA384}]}

\* The negotiated hash of the cipher suite (NULL: no cipher suite selected)
PrfHashAlgos == {NULL, TLS_HASH_ALGO_SHA256, TLS_HASH_ALGO_SHA384}

\* The transcript hash context at the time of CertificateVerify
Transcript(b) == Ptr([i \in 1..MaxTranscriptLen |-> b])

SignConfig(signAlgo, signHashAlgo, type, namedCurve) ==
    [signAlgo |-> signAlgo, signHashAlgo |-> signHashAlgo,
     type |-> type, namedCurve |-> namedCurve]

\* Signing configurations the negotiation arrives at for a TLS 1.3 handshake
SupportedSignConfigs ==
    {SignConfig(TLS_SIGN_ALGO_RSA_PSS_RSAE_SHA256, TLS_HASH_ALGO_SHA256,
                TLS_CERT_RSA_SIGN, TLS_GROUP_NONE),
     SignConfig(TLS_SIGN_ALGO_RSA_PSS_RSAE_SHA384, TLS_HASH_ALGO_SHA384,
                TLS_CERT_RSA_SIGN, TLS_GROUP_NONE),
     SignConfig(TLS_SIGN_ALGO_RSA_PSS_RSAE_SHA512, TLS_HASH_ALGO_SHA512,
                TLS_CERT_RSA_SIGN, TLS_GROUP_NONE),
     SignConfig(TLS_SIGN_ALGO_RSA_PSS_PSS_SHA256, TLS_HASH_ALGO_SHA256,
                TLS_CERT_RSA_PSS_SIGN, TLS_GROUP_NONE),
     SignConfig(TLS_SIGN_ALGO_RSA_PSS_PSS_SHA384, TLS_HASH_ALGO_SHA384,
                TLS_CERT_RSA_PSS_SIGN, TLS_GROUP_NONE),
     SignConfig(TLS_SIGN_ALGO_RSA_PSS_PSS_SHA512, TLS_HASH_ALGO_SHA512,
                TLS_CERT_RSA_PSS_SIGN, TLS_GROUP_NONE),
     SignConfig(TLS_SIGN_ALGO_ECDSA, TLS_HASH_ALGO_SHA256,
                TLS_CERT_ECDSA_SIGN, TLS_GROUP_SECP256R1),
     SignConfig(TLS_SIGN_ALGO_ECDSA, TLS_HASH_ALGO_SHA384,
                TLS_CERT_ECDSA_SIGN, TLS_GROUP_SECP384R1),
     SignConfig(TLS_SIGN_ALGO_ECDSA, TLS_HASH_ALGO_SHA512,
                TLS_CERT_ECDSA_SIGN, TLS_GROUP_SECP521R1),
     SignConfig(TLS_SIGN_ALGO_ED25519, TLS_HASH_ALGO_NONE,
                TLS_CERT_ED25519_SIGN, TLS_GROUP_NONE),
     SignConfig(TLS_SIGN_ALGO_ED448, TLS_HASH_ALGO_NONE,
                TLS_CERT_ED448_SIGN, TLS_GROUP_NONE)}

\* Configurations left by a negotiation of an earlier protocol version, or by
\* a certificate whose curve and hash TLS 1.3 does not pair, or whose type is
\* not that of the scheme
OtherSignConfigs ==
    {SignConfig(TLS_SIGN_ALGO_RSA, TLS_HASH_ALGO_SHA256,
                TLS_CERT_RSA_SIGN, TLS_GROUP_NONE),
     SignConfig(TLS_SIGN_ALGO_DSA, TLS_HASH_ALGO_SHA256,
                TLS_CERT_DSS_SIGN, TLS_GROUP_NONE),
     SignConfig(TLS_SIGN_ALGO_ECDSA, TLS_HASH_ALGO_SHA384,
                TLS_CERT_ECDSA_SIGN, TLS_GROUP_SECP256R1),
     SignConfig(TLS_SIGN_ALGO_ECDSA, TLS_HASH_ALGO_SHA256,
                TLS_CERT_ECDSA_SIGN, TLS_GROUP_SECP384R1),
     SignConfig(TLS_SIGN_ALGO_ECDSA, TLS_HASH_ALGO_SHA1,
                TLS_CERT_ECDSA_SIGN, TLS_GROUP_SECP521R1),
     SignConfig(TLS_SIGN_ALGO_ECDSA, TLS_HASH_ALGO_SHA256,
                TLS_CERT_ECDSA_SIGN, TLS_GROUP_SECP224R1),
     SignConfig(TLS_SIGN_ALGO_RSA_PSS_RSAE_SHA256, TLS_HASH_ALGO_SHA256,
                TLS_CERT_RSA_PSS_SIGN, TLS_GROUP_NONE),
     SignConfig(TLS_SIGN_ALGO_ED25519, TLS_HASH_ALGO_NONE,
                TLS_CERT_ED448_SIGN, TLS_GROUP_NONE)}

SignConfigs == SupportedSignConfigs \cup OtherSignConfigs

PeerConfig(type, name) == [type |-> type, name |-> name]

\* What the certificate of the peer may be: its key type and, for an
\* elliptic-curve key, the name of its curve
PeerConfigs ==
    {PeerConfig(t, NULL) :
        t \in {TLS_CERT_NONE, TLS_CERT_RSA_SIGN, TLS_CERT_RSA_PSS_SIGN,
               TLS_CERT_DSS_SIGN, TLS_CERT_ED25519_SIGN, TLS_CERT_ED448_SIGN}}
    \cup {PeerConfig(TLS_CERT_ECDSA_SIGN, n) :
            n \in {NULL, "secp224r1", "secp256r1", "secp384r1", "secp521r1"}}

RsaCertTypes == {TLS_CERT_RSA_SIGN, TLS_CERT_RSA_PSS_SIGN}
EcCertTypes == {TLS_CERT_ECDSA_SIGN, TLS_CERT_ED25519_SIGN, TLS_CERT_ED448_SIGN}

\* A context that holds the certificate of signing configuration sc with
\* private key key
WithCertificate(c, sc, key) ==
    [c EXCEPT !.signAlgo = sc.signAlgo,
              !.signHashAlgo = sc.signHashAlgo,
              !.cert = [type |-> sc.type, namedCurve |-> sc.namedCurve,
                        privateKey |-> key]]

\* A context that has parsed a peer certificate of configuration pc with
\* public key key
WithPeerCertificate(c, pc, key) ==
    [c EXCEPT !.peerCertType = pc.type,
              !.peerEcParams = [name |-> pc.name],
              !.peerRsaPublicKey = IF pc.type \in RsaCertTypes THEN key ELSE 0,
              !.peerEcPublicKey = IF pc.type \in EcCertTypes THEN key ELSE 0]

\* the peer configuration a certificate of signing configuration sc parses to
PeerConfigOf(sc) ==
    PeerConfig(sc.type,
               IF sc.type = TLS_CERT_ECDSA_SIGN THEN CurveName(sc.namedCurve)
               ELSE NULL)

KeyOf(e) == IF e = TLS_CONNECTION_END_CLIENT THEN 1 ELSE 2

\* The hash algorithm RFC 8446 assigns to a signature scheme
SchemeHash(s) ==
    CASE s \in {TLS_SIGN_SCHEME_RSA_PSS_RSAE_SHA256,
                TLS_SIGN_SCHEME_RSA_PSS_PSS_SHA256,
                TLS_SIGN_SCHEME_ECDSA_SECP256R1_SHA256} -> TLS_HASH_ALGO_SHA256
      [] s \in {TLS_SIGN_SCHEME_RSA_PSS_RSAE_SHA384,
                TLS_SIGN_SCHEME_RSA_PSS_PSS_SHA384,
                TLS_SIGN_SCHEME_ECDSA_SECP384R1_SHA384} -> TLS_HASH_ALGO_SHA384
      [] s \in {TLS_SIGN_SCHEME_RSA_PSS_RSAE_SHA512,
                TLS_SIGN_SCHEME_RSA_PSS_PSS_SHA512,
                TLS_SIGN_SCHEME_ECDSA_SECP521R1_SHA512} -> TLS_HASH_ALGO_SHA512
      [] OTHER -> NULL

\* The content endpoint c expects the peer's signature to cover
ExpectedContent(c) ==
    SignatureContent(ContentLength(c.prfHashAlgo), VerifyContextString(c.entity),
                     HashFinal(c.prfHashAlgo, c.handshakeHashContext[1]))

\* The signature the holder of the peer's key computes under scheme s over the
\* content c expects, whatever the type of its certificate
PeerSignature(c, s) ==
    LET content == ExpectedContent(c)
        key == IF c.peerCertType \in RsaCertTypes
               THEN c.peerRsaPublicKey ELSE c.peerEcPublicKey
    IN  IF s \in RsaPssRsaeSchemes \cup RsaPssPssSchemes
        THEN Signature(1, HashTag(SchemeHash(s)), key,
                       HashCompute(SchemeHash(s), content))
        ELSE IF s \in EcdsaSchemes
        THEN Signature(2, CurveTag(c.peerEcParams.name), key,
                       HashCompute(SchemeHash(s), content))
        ELSE Signature(3, EddsaTag(c.peerCertType), key, content)

RecordHeader(scheme, n) == HTONS(scheme) \o HTONS(n)
FillerValue(m) == [i \in 1..m |-> 170]
AllSchemes == KnownSchemes \cup {TLS_SIGN_SCHEME_RSA_PKCS1_SHA256}

\* The records an adversary hands to verify of context c: cut short, with a
\* length field that is not the length of the value, with an arbitrary value,
\* or signed with the peer's key under any scheme
AdversaryRecords(c) ==
    {SubSeq(RecordHeader(TLS_SIGN_SCHEME_ED25519, 0), 1, k) : k \in 0..3}
    \cup {RecordHeader(s, n) \o FillerValue(m) :
            s \in AllSchemes, n \in 0..MaxValueLen, m \in 0..MaxValueLen}
    \cup (IF c.prfHashAlgo = NULL THEN {}
          ELSE {RecordHeader(s, 4) \o PeerSignature(c, s) : s \in KnownSchemes})

InFlight(to, p, length) == [to |-> to, p |-> p, length |-> length]

\* A handshake that has reached CertificateVerify on both sides: each side
\* holds its certificate and has parsed the certificate of the other
InitSigning ==
    \E sc \in SignConfigs, prf \in PrfHashAlgos, b \in Builds,
       sameTranscript \in BOOLEAN, sameKey \in BOOLEAN :
        /\ sameTranscript \/ sameKey
        /\ build = b
        /\ ctx = [e \in Endpoints |->
                    WithPeerCertificate(
                        WithCertificate(
                            [DefaultContext(e) EXCEPT
                                !.prfHashAlgo = prf,
                                !.handshakeHashContext =
                                    IF sameTranscript \/ e = TLS_CONNECTION_END_CLIENT
                                    THEN Transcript(1) ELSE Transcript(2)],
                            sc, KeyOf(e)),
                        PeerConfigOf(sc),
                        IF sameKey THEN KeyOf(Peer(e)) ELSE 3)]
        /\ wire = InFlight("nobody", <<>>, 0)
        /\ last = NoCall
        /\ prev = NoCall
        /\ hello = NoHello
        /\ fed = NothingFed

\* An endpoint that has parsed any peer certificate and is handed any record
InitAdversary ==
    \E pc \in PeerConfigs, prf \in PrfHashAlgos, b \in Builds, t \in Endpoints :
        /\ build = b
        /\ ctx = [e \in Endpoints |->
                    WithPeerCertificate(
                        [DefaultContext(e) EXCEPT !.prfHashAlgo = prf], pc, 1)]
        /\ \E p \in AdversaryRecords(ctx[t]) : wire = InFlight(t, p, Len(p))
        /\ last = NoCall
        /\ prev = NoCall
        /\ hello = NoHello
        /\ fed = NothingFed

InitSig == InitSigning \/ InitAdversary

\* Endpoint e, which holds a certificate, generates its CertificateVerify
\* signature; the record of a successful call is sent to the peer
Sign(e) ==
    /\ ctx[e].cert.type # TLS_CERT_NONE
    /\ wire.to = "nobody"
    /\ \E env \in Envs :
            \E r \in {tls13GenerateSignature(ctx[e], env)} :
                /\ last' = [op |-> "sign", who |-> e, error |-> r.error,
                            events |-> r.events, p |-> EmittedRecord(r),
                            length |-> r.length, content |-> r.content,
                            clientVerifyData |-> r.clientVerifyData,
                            reads |-> {}]
                /\ wire' = IF r.error = NO_ERROR
                           THEN InFlight(Peer(e), EmittedRecord(r), r.length)
                           ELSE wire
                /\ prev' = NoCall
                /\ UNCHANGED <<ctx, build, hello, fed>>

\* Endpoint e receives the CertificateVerify record in flight to it and
\* verifies it
Verify(e) ==
    /\ wire.to = e
    /\ \E env \in Envs :
        \E r \in {tls13VerifySignature(ctx[e], wire.p, wire.length, env)} :
            /\ last' = [op |-> "verify", who |-> e, error |-> r.error,
                        events |-> r.events, p |-> wire.p,
                        length |-> wire.length, content |-> r.content,
                        clientVerifyData |-> r.clientVerifyData,
                        reads |-> r.reads]
            /\ wire' = InFlight("nobody", <<>>, 0)
            /\ prev' = last
            /\ UNCHANGED <<ctx, build, hello, fed>>

NextSig == \E e \in Endpoints : Sign(e) \/ Verify(e)

SpecSig == InitSig /\ [][NextSig]_vars

-----------------------------------------------------------------------------
(* Properties of the signature engine *)

\* the signature scheme a record claims
SchemeOf(p) == ntohs(SignatureAlgorithmField(p))

\* The scheme is consistent with the certificate of the peer of context c
SchemeFitsPeerCertificate(scheme, c) ==
    \/ scheme \in RsaPssRsaeSchemes /\ c.peerCertType = TLS_CERT_RSA_SIGN
    \/ scheme \in RsaPssPssSchemes /\ c.peerCertType = TLS_CERT_RSA_PSS_SIGN
    \/ /\ c.peerCertType = TLS_CERT_ECDSA_SIGN
       /\ \/ /\ scheme = TLS_SIGN_SCHEME_ECDSA_SECP256R1_SHA256
             /\ c.peerEcParams.name = "secp256r1"
          \/ /\ scheme = TLS_SIGN_SCHEME_ECDSA_SECP384R1_SHA384
             /\ c.peerEcParams.name = "secp384r1"
          \/ /\ scheme = TLS_SIGN_SCHEME_ECDSA_SECP521R1_SHA512
             /\ c.peerEcParams.name = "secp521r1"
    \/ scheme = TLS_SIGN_SCHEME_ED25519 /\ c.peerCertType = TLS_CERT_ED25519_SIGN
    \/ scheme = TLS_SIGN_SCHEME_ED448 /\ c.peerCertType = TLS_CERT_ED448_SIGN

VerificationPrimitives ==
    {"hashAlgo->compute", "rsassaPssVerify", "tlsVerifyEcdsaSignature",
     "tlsVerifyEddsaSignature"}
SigningPrimitives ==
    {"hashAlgo->compute", "pemImportRsaPrivateKey", "rsassaPssSign",
     "tlsGenerateEcdsaSignature", "tlsGenerateEddsaSignature"}

\* the calls of a list of events to the collaborators named in names
CallsTo(events, names) ==
    SelectSeq(events, LAMBDA ev : ev.name \in names)

\* the call has got as far as the dispatch on the scheme: the negotiated hash
\* is resolved, the buffer allocated and the transcript hash computed
ReachedDispatch(call) ==
    \E i \in 1..Len(call.events) :
        /\ call.events[i].name = "tlsFinalizeTranscriptHash"
        /\ call.events[i].ret = NO_ERROR

\* C1: verify never returns success unless the scheme the record claims is
\* consistent with the type (and, for ECDSA, the curve) of the peer's
\* certificate; for every other combination, unknown schemes included, no
\* verification primitive is called and the call fails.
C1_VerifyOnlyConsistentScheme ==
    last.op = "verify" =>
        LET fits == /\ last.length >= SizeofTls13DigitalSignature
                    /\ SchemeFitsPeerCertificate(SchemeOf(last.p), ctx[last.who])
        IN  /\ last.error = NO_ERROR => fits
            /\ ~fits => /\ last.error # NO_ERROR
                        /\ CallsTo(last.events, VerificationPrimitives) = <<>>

\* C1, its case: a record signed with the key of the peer's RSA certificate
\* under an rsa_pss_pss scheme is rejected
C1_Witness ==
    /\ last.op = "verify"
    /\ last.length = 8
    /\ SchemeOf(last.p) = TLS_SIGN_SCHEME_RSA_PSS_PSS_SHA256
    /\ ctx[last.who].peerCertType = TLS_CERT_RSA_SIGN
    /\ last.p = RecordHeader(TLS_SIGN_SCHEME_RSA_PSS_PSS_SHA256, 4)
                  \o PeerSignature(ctx[last.who], TLS_SIGN_SCHEME_RSA_PSS_PSS_SHA256)
    /\ last.error = ERROR_INVALID_SIGNATURE

MalformedLength(p, length) ==
    \/ length < SizeofTls13DigitalSignature
    \/ length # SizeofTls13DigitalSignature + ntohs(SignatureLengthField(p))

\* C3: verify returns DecodingFailed whenever length is smaller than the
\* 4-byte header or differs from 4 plus the declared length of the value;
\* nothing has been consulted, allocated or read of the value by then.
C3_VerifyLengthCheckFirst ==
    (last.op = "verify" /\ MalformedLength(last.p, last.length)) =>
        /\ last.error = ERROR_DECODING_FAILED
        /\ last.events = <<>>
        /\ last.reads \subseteq {2, 3}
        /\ last.length < SizeofTls13DigitalSignature => last.reads = {}

\* C3, its case: a record whose value is longer than declared, handed to a
\* context whose negotiated hash is not resolved
C3_Witness ==
    /\ last.op = "verify"
    /\ last.length = 5
    /\ ntohs(SignatureLengthField(last.p)) = 0
    /\ ctx[last.who].prfHashAlgo = NULL
    /\ last.error = ERROR_DECODING_FAILED

\* the signing configuration context c holds
SignConfigOf(c) ==
    SignConfig(c.signAlgo, c.signHashAlgo, c.cert.type, c.cert.namedCurve)

\* the public key context c holds for its peer
PeerPublicKey(c) ==
    IF c.peerCertType \in RsaCertTypes
    THEN c.peerRsaPublicKey ELSE c.peerEcPublicKey

\* the last call is a verify of the record the peer's sign call emitted
RoundTrip ==
    /\ last.op = "verify"
    /\ prev.op = "sign"
    /\ prev.error = NO_ERROR
    /\ prev.who = Peer(last.who)
    /\ last.p = prev.p
    /\ last.length = prev.length

\* both sides compute the same transcript digest under the same negotiated
\* hash
SameDigest(signer, verifier) ==
    /\ signer.prfHashAlgo = verifier.prfHashAlgo
    /\ HashFinal(signer.prfHashAlgo, signer.handshakeHashContext[1])
         = HashFinal(verifier.prfHashAlgo, verifier.handshakeHashContext[1])

\* the verifier has parsed the certificate the signer signs with
SameCertificate(signer, verifier) ==
    /\ PeerConfig(verifier.peerCertType, verifier.peerEcParams.name)
         = PeerConfigOf(SignConfigOf(signer))
    /\ PeerPublicKey(verifier) = signer.cert.privateKey

\* a collaborator of the call failed for want of a resource
ResourceFailure(events) ==
    \E i \in 1..Len(events) :
        \/ events[i].name = "tlsAllocMem" /\ events[i].ret = NULL
        \/ events[i].ret \in {ERROR_OUT_OF_MEMORY, ERROR_INVALID_KEY}

\* the hash algorithms the call pre-hashed the content with
HashesUsed(call) ==
    {call.events[i].arg : i \in {j \in 1..Len(call.events) :
                                    call.events[j].name = "hashAlgo->compute"}}

\* C4: for every supported signing configuration, the record sign emits on
\* success is accepted by the peer's verify when both sides compute the same
\* transcript digest under the same negotiated hash and the verifier holds the
\* signer's certificate and no collaborator of verify fails for want of a
\* resource; verify maps the emitted scheme to the hash sign used, and the
\* length sign reports is 4 plus the emitted length field, which passes
\* verify's length check.
C4_SignVerifyRoundTrip ==
    (/\ RoundTrip
     /\ SignConfigOf(ctx[prev.who]) \in SupportedSignConfigs
     /\ SameDigest(ctx[prev.who], ctx[last.who])
     /\ SameCertificate(ctx[prev.who], ctx[last.who])
     /\ ~ResourceFailure(last.events))
        => /\ last.error = NO_ERROR
           /\ HashesUsed(last) = HashesUsed(prev)
           /\ prev.length = 4 + ntohs(SignatureLengthField(prev.p))
           /\ VerifyCheckLength(prev.p, prev.length) = NO_ERROR

\* C4, its case: an ecdsa_secp384r1_sha384 signature is accepted by the peer
C4_Witness ==
    /\ RoundTrip
    /\ SignConfigOf(ctx[prev.who]) \in SupportedSignConfigs
    /\ SameDigest(ctx[prev.who], ctx[last.who])
    /\ SameCertificate(ctx[prev.who], ctx[last.who])
    /\ SchemeOf(last.p) = TLS_SIGN_SCHEME_ECDSA_SECP384R1_SHA384
    /\ HashesUsed(last) = {TLS_HASH_ALGO_SHA384}
    /\ last.error = NO_ERROR

\* the content is 64 octets 0x20, the 33-byte context string, a single zero
\* byte and the transcript digest of context c under the negotiated hash
ContentLayout(content, contextString, c) ==
    /\ Len(contextString) = 33
    /\ Len(content) = 98 + DigestSize(c.prfHashAlgo)
    /\ \A i \in 1..64 : content[i] = 32
    /\ SubSeq(content, 65, 97) = contextString
    /\ content[98] = 0
    /\ SubSeq(content, 99, Len(content))
         = HashFinal(c.prfHashAlgo, c.handshakeHashContext[1])

\* the context string of a role
RoleContextString(entity) ==
    IF entity = TLS_CONNECTION_END_CLIENT
    THEN ClientContextString ELSE ServerContextString

\* C5: the content sign and verify assemble is 64 octets 0x20, the 33-byte
\* context string, one zero byte and the transcript digest, 98 bytes plus the
\* digest size in all; sign uses the string of the local role and verify that
\* of the opposite role, so that for equal digests the content a side
\* verifies is the content its peer signs and never the content the side
\* itself would sign.
C5_ContentLayout ==
    /\ (last.op = "sign" /\ ReachedDispatch(last)) =>
            ContentLayout(last.content, RoleContextString(last.who),
                          ctx[last.who])
    /\ (last.op = "verify" /\ ReachedDispatch(last)) =>
            /\ ContentLayout(last.content, RoleContextString(Peer(last.who)),
                             ctx[last.who])
            /\ last.content # tls13GenerateSignature(ctx[last.who], EnvOk).content
            /\ (RoundTrip /\ SameDigest(ctx[prev.who], ctx[last.who]))
                    => last.content = prev.content
    /\ ClientContextString # ServerContextString

\* C5, its case: a client verifies, under SHA-384, the content the server
\* signed
C5_Witness ==
    /\ RoundTrip
    /\ ReachedDispatch(last)
    /\ last.who = TLS_CONNECTION_END_CLIENT
    /\ ctx[last.who].prfHashAlgo = TLS_HASH_ALGO_SHA384
    /\ Len(last.content) = 146
    /\ last.content = prev.content

\* the hash algorithm of the scheme sign would select for context c
SignSchemeHash(c) ==
    IF c.signAlgo \in {TLS_SIGN_ALGO_RSA_PSS_RSAE_SHA256,
                       TLS_SIGN_ALGO_RSA_PSS_PSS_SHA256}
    THEN TLS_HASH_ALGO_SHA256
    ELSE IF c.signAlgo \in {TLS_SIGN_ALGO_RSA_PSS_RSAE_SHA384,
                            TLS_SIGN_ALGO_RSA_PSS_PSS_SHA384}
    THEN TLS_HASH_ALGO_SHA384
    ELSE IF c.signAlgo \in {TLS_SIGN_ALGO_RSA_PSS_RSAE_SHA512,
                            TLS_SIGN_ALGO_RSA_PSS_PSS_SHA512}
    THEN TLS_HASH_ALGO_SHA512
    ELSE c.signHashAlgo

\* the signing algorithm of context c is not one sign supports
UnsupportedForSigning(c) ==
    \/ c.signAlgo \notin RsaPssSignAlgos
            \cup {TLS_SIGN_ALGO_ECDSA, TLS_SIGN_ALGO_ED25519, TLS_SIGN_ALGO_ED448}
    \/ /\ c.signAlgo = TLS_SIGN_ALGO_ECDSA
       /\ <<c.cert.namedCurve, c.signHashAlgo>> \notin
            {<<TLS_GROUP_SECP256R1, TLS_HASH_ALGO_SHA256>>,
             <<TLS_GROUP_SECP384R1, TLS_HASH_ALGO_SHA384>>,
             <<TLS_GROUP_SECP521R1, TLS_HASH_ALGO_SHA512>>}
    \/ /\ c.signAlgo \in RsaPssSignAlgos \cup {TLS_SIGN_ALGO_ECDSA}
       /\ SignSchemeHash(c) \notin build.hashes

\* C6: once sign has assembled the content (the negotiated hash is resolved,
\* the buffer allocated, the transcript hash computed), it returns
\* UnsupportedSignatureAlgo, without calling a signing primitive, whenever the
\* signing algorithm is not one of the six RSA-PSS schemes, ECDSA, Ed25519 or
\* Ed448, or is ECDSA with a (curve, hash) pair other than (secp256r1,
\* SHA-256), (secp384r1, SHA-384), (secp521r1, SHA-512), or the hash of the
\* scheme cannot be resolved; otherwise the status code of the last primitive
\* called is returned unchanged.  OutOfMemory is returned when the
\* allocation of the buffer fails.
C6_SignErrors ==
    last.op = "sign" =>
        LET calls == CallsTo(last.events, SigningPrimitives)
            c == ctx[last.who]
        IN  /\ (ReachedDispatch(last) /\ UnsupportedForSigning(c)) =>
                    /\ last.error = ERROR_UNSUPPORTED_SIGNATURE_ALGO
                    /\ calls = <<>>
            /\ (ReachedDispatch(last) /\ ~UnsupportedForSigning(c)) =>
                    /\ calls # <<>>
                    /\ last.error = calls[Len(calls)].ret
                    /\ \A i \in 1..(Len(calls) - 1) : calls[i].ret = NO_ERROR
            /\ (\E i \in 1..Len(last.events) :
                    /\ last.events[i].name = "tlsAllocMem"
                    /\ last.events[i].ret = NULL)
                  => /\ last.error = ERROR_OUT_OF_MEMORY
                     /\ calls = <<>>

\* C6, its case: ECDSA on secp256r1 with SHA-384 is refused
C6_Witness ==
    /\ last.op = "sign"
    /\ ReachedDispatch(last)
    /\ ctx[last.who].signAlgo = TLS_SIGN_ALGO_ECDSA
    /\ ctx[last.who].cert.namedCurve = TLS_GROUP_SECP256R1
    /\ ctx[last.who].signHashAlgo = TLS_HASH_ALGO_SHA384
    /\ last.error = ERROR_UNSUPPORTED_SIGNATURE_ALGO

-----------------------------------------------------------------------------
(* tls13ComputePskBinder *)

\* The key schedule functions: deterministic functions of the hash algorithm,
\* the key and the label, digestSize bytes long
LabelTag(label) ==
    CASE label = "ext binder" -> 11
      [] label = "res binder" -> 12
      [] label = "finished" -> 13
      [] label = "extract" -> 14
      [] label = "hmac" -> 15

KeyScheduleValue(h, label, key, data) ==
    LET m == Mix(HashTag(h) + LabelTag(label),
                 <<Mix(1, key), Len(key), Mix(2, data), Len(data)>>)
    IN  [i \in 1..DigestSize(h) |-> (m + 11 * i) % 256]

\* hkdfExtract(hash, ikm, ikmLen, NULL, 0, prk)
hkdfExtract(h, ikm, ikmLen, env) ==
    IF env.extract # NO_ERROR
    THEN [error |-> env.extract, prk |-> <<>>]
    ELSE [error |-> NO_ERROR,
          prk |-> KeyScheduleValue(h, "extract", SubSeq(ikm, 1, ikmLen), <<>>)]

\* tls13DeriveSecret(context, secret, secretLen, label, "", 0, output,
\* outputLen): the hash is that of the cipher suite
tls13DeriveSecret(c, secret, label, env) ==
    IF env.derive # NO_ERROR
    THEN [error |-> env.derive, output |-> <<>>]
    ELSE [error |-> NO_ERROR,
          output |-> KeyScheduleValue(c.prfHashAlgo, label, secret,
                                      HashCompute(c.prfHashAlgo, <<>>))]

\* tls13HkdfExpandLabel(hash, secret, secretLen, label, NULL, 0, output,
\* outputLen)
tls13HkdfExpandLabel(h, secret, label, env) ==
    IF env.expand # NO_ERROR
    THEN [error |-> env.expand, output |-> <<>>]
    ELSE [error |-> NO_ERROR, output |-> KeyScheduleValue(h, label, secret, <<>>)]

\* hmacCompute(hash, key, keyLen, data, dataLen, digest)
hmacCompute(h, key, data, env) ==
    IF env.hmac # NO_ERROR
    THEN [error |-> env.hmac, digest |-> <<>>]
    ELSE [error |-> NO_ERROR, digest |-> KeyScheduleValue(h, "hmac", key, data)]

\* The outcomes of the collaborators of a binder computation
BinderEnvs == {EnvOk,
               [EnvOk EXCEPT !.alloc = FALSE],
               [EnvOk EXCEPT !.extract = ERROR_OUT_OF_MEMORY],
               [EnvOk EXCEPT !.derive = ERROR_OUT_OF_MEMORY],
               [EnvOk EXCEPT !.expand = ERROR_OUT_OF_MEMORY],
               [EnvOk EXCEPT !.hmac = ERROR_OUT_OF_MEMORY]}

TLS_TYPE_CLIENT_HELLO == 1
TLS_TRANSPORT_PROTOCOL_STREAM == "STREAM"
TLS_TRANSPORT_PROTOCOL_DATAGRAM == "DATAGRAM"

\* The handshake message header digested before the partial ClientHello
DtlsHandshakeHeader(c, clientHelloLen) ==
    <<TLS_TYPE_CLIENT_HELLO>> \o STORE24BE(clientHelloLen)
        \o HTONS(c.txMsgSeq) \o STORE24BE(0) \o STORE24BE(clientHelloLen)
TlsHandshakeHeader(clientHelloLen) ==
    <<TLS_TYPE_CLIENT_HELLO>> \o STORE24BE(clientHelloLen)
BinderHeader(c, clientHelloLen) ==
    IF c.transportProtocol = TLS_TRANSPORT_PROTOCOL_DATAGRAM
    THEN DtlsHandshakeHeader(c, clientHelloLen)
    ELSE TlsHandshakeHeader(clientHelloLen)

\* A transcript hash that digests the header and the partial ClientHello into
\* the live hash context itself
BinderTranscriptInPlace(live, header, data) ==
    LET init == IF live # NullPtr THEN live[1] ELSE HashInit
        scratch == HashUpdate(HashUpdate(init, header), data)
    IN  [live |-> IF live # NullPtr THEN Ptr(scratch) ELSE live,
         scratch |-> scratch,
         events |-> <<Event(IF live # NullPtr THEN "memcpy" ELSE "hash->init",
                            NULL, NULL),
                      Event("hash->update", "header", NULL),
                      Event("hash->update", "clientHello", NULL),
                      Event("hash->final", NULL, NULL)>>]

\* A transcript hash that always starts from a freshly initialised hash
\* context
BinderTranscriptFresh(live, header, data) ==
    [live |-> live,
     scratch |-> HashUpdate(HashUpdate(HashInit, header), data),
     events |-> <<Event("hash->init", NULL, NULL),
                  Event("hash->update", "header", NULL),
                  Event("hash->update", "clientHello", NULL),
                  Event("hash->final", NULL, NULL)>>]

\* Initialise the transcript hash in the allocated hash context (a copy of the
\* live hash context, if any), digest the header and the partial ClientHello:
\* the live hash context, the allocated one, the hash functions called
BinderTranscript(live, header, data) ==
    LET init == IF live # NullPtr THEN live[1] ELSE HashInit
        scratch == HashUpdate(HashUpdate(init, header), data)
    IN  [live |-> live,
         scratch |-> scratch,
         events |-> <<Event(IF live # NullPtr THEN "memcpy" ELSE "hash->init",
                            NULL, NULL),
                      Event("hash->update", "header", NULL),
                      Event("hash->update", "clientHello", NULL),
                      Event("hash->final", NULL, NULL)>>]

\* A validity check of the external PSK that does not ask for an identity
tls13IsPskValidAnyIdentity(c) ==
    /\ tlsGetHashAlgo(c.pskHashAlgo) # NULL
    /\ c.psk # NullPtr /\ c.pskLen > 0

\* Check whether an externally established PSK is valid
tls13IsPskValid(c) ==
    /\ tlsGetHashAlgo(c.pskHashAlgo) # NULL
    /\ c.psk # NullPtr /\ c.pskLen > 0
    /\ IF c.entity = TLS_CONNECTION_END_CLIENT
       THEN c.pskIdentity # NullPtr
       ELSE TRUE

\* Check whether a session ticket is valid
tls13IsTicketValid(c) ==
    /\ tlsGetHashAlgo(c.ticketHashAlgo) # NULL
    /\ c.ticketPskLen > 0
    /\ IF c.entity = TLS_CONNECTION_END_CLIENT
       THEN c.ticket # NullPtr /\ c.ticketLen > 0
       ELSE TRUE

\* A precondition check that looks at the negotiated hash first
BinderCheckParametersHashFirst(c, clientHelloLen, truncatedClientHelloLen, binderLen) ==
    IF c.prfHashAlgo = NULL THEN ERROR_FAILURE
    ELSE IF truncatedClientHelloLen >= clientHelloLen
    THEN ERROR_INVALID_PARAMETER
    ELSE IF binderLen # DigestSize(c.prfHashAlgo) THEN ERROR_INVALID_LENGTH
    ELSE NO_ERROR

\* Check parameters, the hash algorithm, the length of the PSK binder
BinderCheckParameters(c, clientHelloLen, truncatedClientHelloLen, binderLen) ==
    IF truncatedClientHelloLen >= clientHelloLen THEN ERROR_INVALID_PARAMETER
    ELSE IF c.prfHashAlgo = NULL THEN ERROR_FAILURE
    ELSE IF binderLen # DigestSize(c.prfHashAlgo) THEN ERROR_INVALID_LENGTH
    ELSE NO_ERROR

\* what the calculation of the binder key yields: the status code, the context
\* (its secret field holds the early secret), the key, the label, the input
\* keying material, the collaborators called
BinderKey(error, context, key, label, ikm, events) ==
    [error |-> error, context |-> context, key |-> key, label |-> label,
     ikm |-> ikm, events |-> events]

\* A calculation of the binder key whose early secret is salted with the
\* secret the context holds
BinderKeyFromSalted(c, ikm, ikmLen, label, env) ==
    LET hash == c.prfHashAlgo
        ex == hkdfExtract(hash, SubSeq(ikm, 1, ikmLen) \o c.secret,
                          ikmLen + Len(c.secret), env)
    IN  IF ex.error # NO_ERROR
        THEN BinderKey(ex.error, c, <<>>, label, SubSeq(ikm, 1, ikmLen),
                       <<Event("hkdfExtract", NULL, ex.error)>>)
        ELSE LET c1 == [c EXCEPT !.secret = ex.prk]
                 ds == tls13DeriveSecret(c1, c1.secret, label, env)
             IN  BinderKey(ds.error, c1, ds.output, label,
                           SubSeq(ikm, 1, ikmLen),
                           <<Event("hkdfExtract", NULL, NO_ERROR),
                             Event("tls13DeriveSecret", label, ds.error)>>)

\* A calculation of the binder key that discards the ticket PSK once the
\* early secret is computed
BinderKeyFromConsuming(c, ikm, ikmLen, label, env) ==
    LET hash == c.prfHashAlgo
        ex == hkdfExtract(hash, ikm, ikmLen, env)
    IN  IF ex.error # NO_ERROR
        THEN BinderKey(ex.error, c, <<>>, label, SubSeq(ikm, 1, ikmLen),
                       <<Event("hkdfExtract", NULL, ex.error)>>)
        ELSE LET c1 == [c EXCEPT !.secret = ex.prk, !.ticketPskLen = 0]
                 ds == tls13DeriveSecret(c1, c1.secret, label, env)
             IN  BinderKey(ds.error, c1, ds.output, label,
                           SubSeq(ikm, 1, ikmLen),
                           <<Event("hkdfExtract", NULL, NO_ERROR),
                             Event("tls13DeriveSecret", label, ds.error)>>)

\* Calculate the early secret from input keying material ikm, then the binder
\* key with the given label
BinderKeyFrom(c, ikm, ikmLen, label, env) ==
    LET hash == c.prfHashAlgo
        ex == hkdfExtract(hash, ikm, ikmLen, env)
    IN  IF ex.error # NO_ERROR
        THEN BinderKey(ex.error, c, <<>>, label, SubSeq(ikm, 1, ikmLen),
                       <<Event("hkdfExtract", NULL, ex.error)>>)
        ELSE LET c1 == [c EXCEPT !.secret = ex.prk]
                 ds == tls13DeriveSecret(c1, c1.secret, label, env)
             IN  BinderKey(ds.error, c1, ds.output, label,
                           SubSeq(ikm, 1, ikmLen),
                           <<Event("hkdfExtract", NULL, NO_ERROR),
                             Event("tls13DeriveSecret", label, ds.error)>>)

\* The binder key: from the external PSK if it is valid, else from the ticket
\* PSK if the ticket is valid
BinderKeySelect(c, env) ==
    IF tls13IsPskValid(c)
    THEN BinderKeyFrom(c, c.psk[1], c.pskLen, "ext binder", env)
    ELSE IF tls13IsTicketValid(c)
    THEN BinderKeyFrom(c, c.ticketPsk, c.ticketPskLen, "res binder", env)
    ELSE BinderKey(ERROR_FAILURE, c, <<>>, NULL, <<>>, <<>>)

\* what a binder computation yields: the status code, the context after the
\* call, the binder buffer after the call, the allocated hash context at the
\* time it was finalised, the label and keying material used, the
\* collaborators called
BinderResult(error, context, binder, scratch, label, ikm, events) ==
    [error |-> error, context |-> context, binder |-> binder,
     scratch |-> scratch, label |-> label, ikm |-> ikm, events |-> events]

\* The identity parameter of the function is not used by it.
tls13ComputePskBinder(c, clientHello, clientHelloLen, truncatedClientHelloLen, binder, binderLen, env) ==
    LET check == BinderCheckParameters(c, clientHelloLen,
                                       truncatedClientHelloLen, binderLen)
    IN  IF check # NO_ERROR
        THEN BinderResult(check, c, binder, <<>>, NULL, <<>>, <<>>)
        ELSE IF ~env.alloc
        THEN BinderResult(ERROR_OUT_OF_MEMORY, c, binder, <<>>, NULL, <<>>,
                          <<Event("tlsAllocMem", NULL, NULL)>>)
        ELSE LET hash == c.prfHashAlgo
                 t == BinderTranscript(c.handshakeHashContext,
                          BinderHeader(c, clientHelloLen),
                          SubSeq(clientHello, 1, truncatedClientHelloLen))
                 digest == HashFinal(hash, t.scratch)
                 c0 == [c EXCEPT !.handshakeHashContext = t.live]
                 head == <<Event("tlsAllocMem", NULL, "hashContext")>>
                            \o t.events
                            \o <<Event("tlsFreeMem", NULL, "hashContext")>>
                 k == BinderKeySelect(c0, env)
             IN  IF k.error # NO_ERROR
                 THEN BinderResult(k.error, k.context, binder, t.scratch,
                                   k.label, k.ikm, head \o k.events)
                 ELSE LET fk == tls13HkdfExpandLabel(hash, k.key, "finished", env)
                          expand == <<Event("tls13HkdfExpandLabel", "finished",
                                            fk.error)>>
                      IN  IF fk.error # NO_ERROR
                          THEN BinderResult(fk.error, k.context, binder,
                                   t.scratch, k.label, k.ikm,
                                   head \o k.events \o expand)
                          ELSE LET mac == hmacCompute(hash, fk.output, digest, env)
                                   events == head \o k.events \o expand
                                       \o <<Event("hmacCompute", NULL, mac.error)>>
                               IN  IF mac.error # NO_ERROR
                                   THEN BinderResult(mac.error, k.context, binder,
                                            t.scratch, k.label, k.ikm, events)
                                   ELSE BinderResult(NO_ERROR, k.context,
                                            mac.digest \o SubSeq(binder,
                                                Len(mac.digest) + 1, Len(binder)),
                                            t.scratch, k.label, k.ikm, events)

-----------------------------------------------------------------------------
(* The PSK binder engine: configurations, ClientHello messages, actions *)

\* Longest ClientHello message
MaxHelloLen == 2

\* a binder buffer of the caller, not yet written
UnwrittenBinder(binderLen) == [i \in 1..binderLen |-> -1]

PskConfig(psk, pskLen, pskHashAlgo, pskIdentity) ==
    [psk |-> psk, pskLen |-> pskLen, pskHashAlgo |-> pskHashAlgo,
     pskIdentity |-> pskIdentity]

\* What the application may have configured as external PSK: a PSK with its
\* identity, no PSK, an empty PSK, a PSK whose hash algorithm is not set, a
\* PSK without identity
ValidPskConfig == PskConfig(Ptr(<<11>>), 1, TLS_HASH_ALGO_SHA256, Ptr("id"))
PskConfigs ==
    {ValidPskConfig,
     PskConfig(NullPtr, 1, TLS_HASH_ALGO_SHA256, Ptr("id")),
     PskConfig(Ptr(<<11>>), 0, TLS_HASH_ALGO_SHA256, Ptr("id")),
     PskConfig(Ptr(<<11>>), 1, TLS_HASH_ALGO_NONE, Ptr("id")),
     PskConfig(Ptr(<<11>>), 1, TLS_HASH_ALGO_SHA256, NullPtr)}

TicketConfig(ticket, ticketLen, ticketPsk, ticketPskLen, ticketHashAlgo) ==
    [ticket |-> ticket, ticketLen |-> ticketLen, ticketPsk |-> ticketPsk,
     ticketPskLen |-> ticketPskLen, ticketHashAlgo |-> ticketHashAlgo]

\* What an earlier connection may have left as session ticket: a ticket with
\* its PSK, an empty ticket PSK, a hash algorithm that is not set, no ticket,
\* an empty ticket
ValidTicketConfig ==
    TicketConfig(Ptr(<<21>>), 1, <<22>>, 1, TLS_HASH_ALGO_SHA256)
TicketConfigs ==
    {ValidTicketConfig,
     TicketConfig(Ptr(<<21>>), 1, <<22>>, 0, TLS_HASH_ALGO_SHA256),
     TicketConfig(Ptr(<<21>>), 1, <<22>>, 1, TLS_HASH_ALGO_NONE),
     TicketConfig(NullPtr, 1, <<22>>, 1, TLS_HASH_ALGO_SHA256),
     TicketConfig(Ptr(<<21>>), 0, <<22>>, 1, TLS_HASH_ALGO_SHA256)}

WithPsk(c, pc, tc) ==
    [c EXCEPT !.psk = pc.psk, !.pskLen = pc.pskLen,
              !.pskHashAlgo = pc.pskHashAlgo, !.pskIdentity = pc.pskIdentity,
              !.ticket = tc.ticket, !.ticketLen = tc.ticketLen,
              !.ticketPsk = tc.ticketPsk, !.ticketPskLen = tc.ticketPskLen,
              !.ticketHashAlgo = tc.ticketHashAlgo]

\* The ClientHello messages a client builds: bytes 1, 2, .. or the same with
\* another last byte, cut at any length up to one byte past the end
HelloBytes(n, lastByte) == [i \in 1..n |-> IF i = n THEN lastByte ELSE i]
Hellos ==
    {Hello(TLS_CONNECTION_END_CLIENT, HelloBytes(n, b), n, t, bl) :
        n \in 1..MaxHelloLen, b \in {0, 9}, t \in 0..(MaxHelloLen + 1),
        bl \in {32, 48}}

\* The live transcript: none (first ClientHello), or the transcript of a
\* first exchange (ClientHello after a HelloRetryRequest)
LiveTranscripts == {NullPtr, Transcript(7)}

\* Any ClientHello on any connection whose PSK and ticket are valid
InitBinderArguments ==
    \E prf \in PrfHashAlgos, live \in LiveTranscripts, h \in Hellos,
       transport \in {TLS_TRANSPORT_PROTOCOL_STREAM,
                      TLS_TRANSPORT_PROTOCOL_DATAGRAM} :
        /\ ctx = [e \in Endpoints |->
                    WithPsk([DefaultContext(e) EXCEPT
                                !.prfHashAlgo = prf,
                                !.handshakeHashContext = live,
                                !.transportProtocol = transport,
                                !.txMsgSeq = IF live = NullPtr THEN 0 ELSE 1],
                            ValidPskConfig, ValidTicketConfig)]
        /\ hello = h

\* One ClientHello, at the client or at the server, on a connection with any
\* PSK and any ticket
InitBinderKeys ==
    \E pc \in PskConfigs, tc \in TicketConfigs, at \in Endpoints :
        /\ ctx = [e \in Endpoints |->
                    WithPsk([DefaultContext(e) EXCEPT
                                !.handshakeHashContext = NullPtr], pc, tc)]
        /\ hello = Hello(at, HelloBytes(MaxHelloLen, 9), MaxHelloLen,
                          MaxHelloLen - 1, 32)

InitBinder ==
    /\ InitBinderArguments \/ InitBinderKeys
    /\ build = [hashes |-> Tls13Hashes]
    /\ wire = InFlight("nobody", <<>>, 0)
    /\ last = NoCall
    /\ prev = NoCall
    /\ fed = NothingFed

\* Endpoint e computes the PSK binder of the ClientHello it holds (the client
\* to send it, the server to check the one received)
ComputePskBinder(e) ==
    /\ hello.at = e
    /\ \E env \in BinderEnvs :
        \E r \in {tls13ComputePskBinder(ctx[e], hello.clientHello,
                     hello.clientHelloLen, hello.truncatedClientHelloLen,
                     UnwrittenBinder(hello.binderLen), hello.binderLen, env)} :
            /\ ctx' = [ctx EXCEPT ![e] = r.context]
            /\ last' = [op |-> "binder", who |-> e,
                        before |-> ctx[e], hello |-> hello,
                        error |-> r.error, events |-> r.events,
                        binder |-> r.binder, scratch |-> r.scratch,
                        label |-> r.label, ikm |-> r.ikm]
            /\ prev' = IF /\ last.op = "binder"
                          /\ last.who = e
                          /\ ~ResourceFailure(last.events)
                       THEN last ELSE NoCall
            /\ UNCHANGED <<build, wire, hello, fed>>

NextBinder == \E e \in Endpoints : ComputePskBinder(e)

SpecBinder == InitBinder /\ [][NextBinder]_vars

-----------------------------------------------------------------------------
(* Properties of the PSK binder engine *)

\* the call allocated its hash context
BinderAllocated(call) ==
    \E i \in 1..Len(call.events) :
        /\ call.events[i].name = "tlsAllocMem"
        /\ call.events[i].ret # NULL

\* C7: tls13ComputePskBinder never changes the live transcript hash state:
\* whatever the input and the outcome, the live hash context after the call
\* is the one before the call; what is updated and finalised is the allocated
\* context, a copy of the live one or, when there is none, a freshly
\* initialised one.
C7_LiveTranscriptUnchanged ==
    last.op = "binder" =>
        LET live == last.before.handshakeHashContext
            h == last.hello
        IN  /\ ctx[last.who].handshakeHashContext = live
            /\ BinderAllocated(last) =>
                /\ last.scratch =
                     (IF live = NullPtr THEN HashInit ELSE live[1])
                        \o BinderHeader(last.before, h.clientHelloLen)
                        \o SubSeq(h.clientHello, 1, h.truncatedClientHelloLen)
                /\ "memcpy" \in EventNames(last.events) <=> live # NullPtr
                /\ "hash->init" \in EventNames(last.events) <=> live = NullPtr

\* C7, its case: a binder computed while a live transcript exists
C7_Witness ==
    /\ last.op = "binder"
    /\ last.error = NO_ERROR
    /\ last.before.handshakeHashContext # NullPtr
    /\ last.scratch # last.before.handshakeHashContext[1]
    /\ ctx[last.who].handshakeHashContext = last.before.handshakeHashContext

\* the binder buffer is written in full
BinderWritten(binder) == \A i \in 1..Len(binder) : binder[i] >= 0

\* C8: two successive calls of tls13ComputePskBinder by an endpoint with the
\* same ClientHello bytes and lengths, during which no collaborator fails for
\* want of a resource, both succeed or both fail with the same error, and on
\* success write the same binder, digestSize bytes long: the first call
\* changes nothing the result of the second depends on.
C8_BinderDeterministic ==
    (/\ last.op = "binder"
     /\ prev.op = "binder"
     /\ prev.who = last.who
     /\ prev.hello = last.hello
     /\ ~ResourceFailure(prev.events)
     /\ ~ResourceFailure(last.events))
        => /\ last.error = prev.error
           /\ last.error = NO_ERROR =>
                /\ last.binder = prev.binder
                /\ Len(last.binder) = DigestSize(last.before.prfHashAlgo)
                /\ BinderWritten(last.binder)

\* C8, its case: the second of two successful calls, the first of which left
\* the early secret in the context
C8_Witness ==
    /\ last.op = "binder"
    /\ prev.op = "binder"
    /\ prev.who = last.who
    /\ prev.hello = last.hello
    /\ prev.error = NO_ERROR
    /\ last.error = NO_ERROR
    /\ prev.before.secret # last.before.secret
    /\ last.binder = prev.binder

\* C9: tls13ComputePskBinder checks its preconditions in a fixed order:
\* truncatedClientHelloLen >= clientHelloLen gives InvalidParameter; else an
\* unresolved negotiated hash gives Failure; else a binderLen other than the
\* digest size gives InvalidLength.  In each case nothing is allocated, no
\* field of the context changes and the binder buffer is not written.
C9_BinderPreconditionOrder ==
    last.op = "binder" =>
        LET c == last.before
            h == last.hello
            untouched == /\ last.events = <<>>
                         /\ ctx[last.who] = c
                         /\ last.binder = UnwrittenBinder(h.binderLen)
        IN  IF h.truncatedClientHelloLen >= h.clientHelloLen
            THEN last.error = ERROR_INVALID_PARAMETER /\ untouched
            ELSE IF c.prfHashAlgo = NULL
            THEN last.error = ERROR_FAILURE /\ untouched
            ELSE IF h.binderLen # DigestSize(c.prfHashAlgo)
            THEN last.error = ERROR_INVALID_LENGTH /\ untouched
            ELSE last.error \notin {ERROR_INVALID_PARAMETER, ERROR_INVALID_LENGTH}

\* C9, its case: the lengths are wrong and the negotiated hash is not resolved
C9_Witness ==
    /\ last.op = "binder"
    /\ last.hello.truncatedClientHelloLen > last.hello.clientHelloLen
    /\ last.before.prfHashAlgo = NULL
    /\ last.error = ERROR_INVALID_PARAMETER

\* the external PSK of context c is present, non-empty, its hash algorithm
\* resolvable, and an identity is set when c is the client
PskUsable(c) ==
    /\ c.psk # NullPtr
    /\ c.pskLen > 0
    /\ c.pskHashAlgo \in build.hashes
    /\ c.entity = TLS_CONNECTION_END_CLIENT => c.pskIdentity # NullPtr

\* the ticket PSK of context c is non-empty, the ticket hash resolvable, and
\* the ticket is non-empty when c is the client
TicketUsable(c) ==
    /\ c.ticketPskLen > 0
    /\ c.ticketHashAlgo \in build.hashes
    /\ c.entity = TLS_CONNECTION_END_CLIENT =>
            (c.ticket # NullPtr /\ c.ticketLen > 0)

\* the labels the call derived secrets with
DerivedLabels(call) ==
    {call.events[i].arg : i \in {j \in 1..Len(call.events) :
                                    call.events[j].name = "tls13DeriveSecret"}}

\* C10: once the transcript hash of the partial ClientHello is computed, the
\* external PSK is used, with label "ext binder", when it is valid, even if a
\* valid ticket exists too; otherwise the ticket PSK is used, with label
\* "res binder", when the ticket is valid; when neither is valid the call
\* returns Failure and the binder buffer is not written.
C10_BinderKeySelection ==
    (last.op = "binder" /\ BinderAllocated(last)) =>
        LET c == last.before
        IN  IF PskUsable(c)
            THEN /\ last.label = "ext binder"
                 /\ last.ikm = SubSeq(c.psk[1], 1, c.pskLen)
                 /\ DerivedLabels(last) \subseteq {"ext binder"}
                 /\ last.error = NO_ERROR => DerivedLabels(last) = {"ext binder"}
            ELSE IF TicketUsable(c)
            THEN /\ last.label = "res binder"
                 /\ last.ikm = SubSeq(c.ticketPsk, 1, c.ticketPskLen)
                 /\ DerivedLabels(last) \subseteq {"res binder"}
                 /\ last.error = NO_ERROR => DerivedLabels(last) = {"res binder"}
            ELSE /\ last.error = ERROR_FAILURE
                 /\ last.binder = UnwrittenBinder(last.hello.binderLen)
                 /\ "hkdfExtract" \notin EventNames(last.events)

\* C10, its case: a client that holds a valid external PSK and a valid ticket
\* binds with the external PSK
C10_Witness ==
    /\ last.op = "binder"
    /\ last.who = TLS_CONNECTION_END_CLIENT
    /\ PskUsable(last.before)
    /\ TicketUsable(last.before)
    /\ last.label = "ext binder"
    /\ last.ikm # SubSeq(last.before.ticketPsk, 1, last.before.ticketPskLen)
    /\ last.error = NO_ERROR
    /\ BinderWritten(last.binder)

\* the call extracted an early secret
EarlySecretExtracted(call) ==
    \E i \in 1..Len(call.events) :
        /\ call.events[i].name = "hkdfExtract"
        /\ call.events[i].ret = NO_ERROR

\* C20: frame of tls13ComputePskBinder on the context: the only field of the
\* context a call may write is secret, which receives the early secret
\* extracted from the selected PSK when the external PSK or the ticket is
\* valid; the PSK and the ticket, the inputs of their validity, the named
\* group, the role and the transcript hash context are unchanged by every
\* call, and a call that fails because neither the PSK nor the ticket is
\* valid, or at a check of its parameters, leaves the whole context, secret
\* included, unchanged.
C20_BinderFrame ==
    last.op = "binder" =>
        LET c == last.before
            after == ctx[last.who]
            ikm == IF PskUsable(c) THEN SubSeq(c.psk[1], 1, c.pskLen)
                   ELSE SubSeq(c.ticketPsk, 1, c.ticketPskLen)
        IN  /\ after = [c EXCEPT !.secret = after.secret]
            /\ after.namedGroup = c.namedGroup
            /\ after.entity = c.entity
            /\ after.handshakeHashContext = c.handshakeHashContext
            /\ EarlySecretExtracted(last) =>
                /\ PskUsable(c) \/ TicketUsable(c)
                /\ after.secret =
                     KeyScheduleValue(c.prfHashAlgo, "extract", ikm, <<>>)
            /\ ~EarlySecretExtracted(last) => after = c
            /\ (~BinderAllocated(last)
                    \/ ~(PskUsable(c) \/ TicketUsable(c))) =>
                /\ last.error # NO_ERROR
                /\ ~EarlySecretExtracted(last)
                /\ after = c

\* C20, its case: a binder computed from the ticket PSK wrote the early
\* secret, and nothing else, into the context
C20_Witness ==
    /\ last.op = "binder"
    /\ last.error = NO_ERROR
    /\ ~PskUsable(last.before)
    /\ TicketUsable(last.before)
    /\ ctx[last.who].secret # last.before.secret
    /\ ctx[last.who].ticketPsk = last.before.ticketPsk
    /\ ctx[last.who].ticketPskLen = last.before.ticketPskLen

-----------------------------------------------------------------------------
(* tls13DigestClientHello1 *)

TLS_TYPE_MESSAGE_HASH == 254
\* sizeof(TlsHandshake): msgType (1 byte) and length (3 bytes)
SizeofTlsHandshake == 4

\* The synthetic handshake message formatted in context->txBuffer: type
\* message_hash, the digest size as length, and the digest as data
MessageHash(hash, data) ==
    <<TLS_TYPE_MESSAGE_HASH>> \o STORE24BE(DigestSize(hash)) \o data

\* A replacement that digests the synthetic message after ClientHello1
\* without re-initialising the hash context
DigestTranscriptAppended(hash, live) ==
    LET message == MessageHash(hash, HashFinal(hash, live))
    IN  HashUpdate(live,
            SubSeq(message, 1, DigestSize(hash) + SizeofTlsHandshake))

\* Compute Hash(ClientHello1), re-initialise the hash context, digest the
\* synthetic message: the hash context after the three calls
DigestTranscript(hash, live) ==
    LET message == MessageHash(hash, HashFinal(hash, live))
    IN  HashUpdate(HashInit,
            SubSeq(message, 1, DigestSize(hash) + SizeofTlsHandshake))

\* what the call yields: the status code, the context after the call, the
\* message left in context->txBuffer (<<>>: not written), the hash functions
\* called
DigestResult(error, context, txBuffer, events) ==
    [error |-> error, context |-> context, txBuffer |-> txBuffer,
     events |-> events]

tls13DigestClientHello1(c) ==
    IF c.handshakeHashContext = NullPtr
    THEN DigestResult(ERROR_FAILURE, c, <<>>, <<>>)
    ELSE IF c.prfHashAlgo = NULL
    THEN DigestResult(ERROR_FAILURE, c, <<>>, <<>>)
    ELSE LET hash == c.prfHashAlgo
             live == c.handshakeHashContext[1]
         IN  DigestResult(NO_ERROR,
                 [c EXCEPT !.handshakeHashContext =
                                Ptr(DigestTranscript(hash, live))],
                 MessageHash(hash, HashFinal(hash, live)),
                 <<Event("hash->final", NULL, NULL),
                   Event("hash->init", NULL, NULL),
                   Event("hash->update", "message", NULL)>>)

-----------------------------------------------------------------------------
(* The HelloRetryRequest engine: the handshake feeds messages to the       *)
(* transcript, replaces ClientHello1 with its hash, binds ClientHello2     *)

\* Number of bytes fed to a transcript between two of its other operations
MaxFedLen == 2

\* The bytes of the handshake messages fed to the transcript
FedBytes == {201, 202}

\* The second ClientHello: its binder is as long as the digest of the
\* negotiated hash
RetryHellos(prf) ==
    {Hello(at, HelloBytes(MaxHelloLen, 9), MaxHelloLen, MaxHelloLen - 1,
           IF prf = NULL THEN 32 ELSE DigestSize(prf)) : at \in Endpoints}

\* A handshake at its start: the transcript hash is initialised, or there is
\* no transcript hash context yet
InitRetry ==
    \E prf \in PrfHashAlgos, live \in {NullPtr, Ptr(HashInit)},
       transport \in {TLS_TRANSPORT_PROTOCOL_STREAM,
                      TLS_TRANSPORT_PROTOCOL_DATAGRAM} :
        /\ ctx = [e \in Endpoints |->
                    WithPsk([DefaultContext(e) EXCEPT
                                !.prfHashAlgo = prf,
                                !.handshakeHashContext = live,
                                !.transportProtocol = transport],
                            ValidPskConfig, ValidTicketConfig)]
        /\ hello \in RetryHellos(prf)
        /\ build = [hashes |-> Tls13Hashes]
        /\ wire = InFlight("nobody", <<>>, 0)
        /\ last = NoCall
        /\ prev = NoCall
        /\ fed = NothingFed

\* The handshake of endpoint e feeds one more byte of a handshake message to
\* the transcript of e (tlsUpdateTranscriptHash)
UpdateTranscript(e) ==
    /\ hello.at = e
    /\ ctx[e].handshakeHashContext # NullPtr
    /\ Len(fed[e].later) < MaxFedLen
    /\ \E b \in FedBytes :
        /\ ctx' = [ctx EXCEPT ![e].handshakeHashContext =
                        Ptr(HashUpdate(ctx[e].handshakeHashContext[1], <<b>>))]
        /\ fed' = [fed EXCEPT ![e].later = fed[e].later \o <<b>>]
        /\ last' = [op |-> "update", who |-> e]
        /\ prev' = NoCall
        /\ UNCHANGED <<build, wire, hello>>

\* Endpoint e, whose first ClientHello was answered with a HelloRetryRequest,
\* replaces ClientHello1 with its hash in the transcript (once in a handshake)
DigestClientHello1(e) ==
    /\ hello.at = e
    /\ fed[e].clientHello1 = NullPtr
    /\ \E r \in {tls13DigestClientHello1(ctx[e])} :
        /\ ctx' = [ctx EXCEPT ![e] = r.context]
        /\ fed' = IF r.error = NO_ERROR
                  THEN [fed EXCEPT ![e] = Fed(Ptr(fed[e].later), <<>>)]
                  ELSE fed
        /\ last' = [op |-> "digest", who |-> e, before |-> ctx[e],
                    error |-> r.error, events |-> r.events,
                    txBuffer |-> r.txBuffer]
        /\ prev' = NoCall
        /\ UNCHANGED <<build, wire, hello>>

NextRetry ==
    \E e \in Endpoints :
        UpdateTranscript(e) \/ DigestClientHello1(e) \/ ComputePskBinder(e)

SpecRetry == InitRetry /\ [][NextRetry]_vars

-----------------------------------------------------------------------------
(* Properties of the HelloRetryRequest engine *)

\* C11: when a live transcript state exists and the negotiated hash is
\* resolved, the live transcript state after tls13DigestClientHello1 is a
\* fresh hash state fed exactly the 4-byte header (type message_hash, 24-bit
\* length = digest size) followed by the hash of everything fed to the
\* transcript before the call, however many bytes that was; when there is no
\* transcript state or the hash is unresolved the call returns Failure and
\* leaves the transcript state unchanged.
C11_DigestClientHello1 ==
    last.op = "digest" =>
        LET c == last.before
            h == c.prfHashAlgo
            after == ctx[last.who].handshakeHashContext
        IN  IF c.handshakeHashContext # NullPtr /\ h # NULL
            THEN /\ last.error = NO_ERROR
                 /\ fed[last.who].clientHello1 # NullPtr
                 /\ after = Ptr(HashInit \o <<254>>
                                  \o <<0, 0, DigestSize(h)>>
                                  \o HashFinal(h, fed[last.who].clientHello1[1]))
                 /\ Len(after[1]) = 4 + DigestSize(h)
            ELSE /\ last.error = ERROR_FAILURE
                 /\ after = c.handshakeHashContext
                 /\ fed[last.who].clientHello1 = NullPtr

\* C11, its case: a ClientHello1 of two bytes is replaced with its hash
C11_Witness ==
    /\ last.op = "digest"
    /\ last.error = NO_ERROR
    /\ fed[last.who].clientHello1 = Ptr(<<201, 202>>)
    /\ Len(ctx[last.who].handshakeHashContext[1]) = 52
    /\ ctx[last.who].prfHashAlgo = TLS_HASH_ALGO_SHA384

\* the handshake message header of a ClientHello of the given length, as the
\* transport of the connection lays it out
ClientHelloHeader(c, len) ==
    LET len24 == <<len \div 65536, (len \div 256) % 256, len % 256>>
    IN  IF c.transportProtocol = TLS_TRANSPORT_PROTOCOL_DATAGRAM
        THEN <<1>> \o len24
                \o <<c.txMsgSeq \div 256, c.txMsgSeq % 256>>
                \o <<0, 0, 0>> \o len24
        ELSE <<1>> \o len24

\* C18: HelloRetryRequest sequence: when ClientHello1 is fed to the
\* transcript, tls13DigestClientHello1 is called, further messages are fed
\* and tls13ComputePskBinder is called for ClientHello2, what the binder
\* digest is computed over is: the message_hash header, Hash(ClientHello1),
\* the messages fed after the retry, a ClientHello header carrying the full
\* clientHelloLen, and the first truncatedClientHelloLen bytes of
\* ClientHello2; the bytes of ClientHello1 are not part of it. When there is
\* no live transcript, it is the ClientHello header and the truncated body
\* only.
C18_RetryBinderTranscript ==
    (last.op = "binder" /\ BinderAllocated(last)) =>
        LET c == last.before
            h == c.prfHashAlgo
            f == fed[last.who]
            tail == ClientHelloHeader(c, last.hello.clientHelloLen)
                      \o SubSeq(last.hello.clientHello, 1,
                                last.hello.truncatedClientHelloLen)
        IN  /\ (c.handshakeHashContext # NullPtr /\ f.clientHello1 # NullPtr) =>
                /\ last.scratch =
                     <<254, 0, 0, DigestSize(h)>>
                        \o HashFinal(h, f.clientHello1[1])
                        \o f.later \o tail
                /\ Len(last.scratch) =
                     4 + DigestSize(h) + Len(f.later) + Len(tail)
            /\ c.handshakeHashContext = NullPtr => last.scratch = tail

\* C18, its case: a binder computed after a ClientHello1 of two bytes was
\* replaced with its hash and a further message was fed
C18_Witness ==
    /\ last.op = "binder"
    /\ last.error = NO_ERROR
    /\ fed[last.who].clientHello1 = Ptr(<<201, 202>>)
    /\ fed[last.who].later # <<>>
    /\ Len(last.scratch) > 4 + DigestSize(last.before.prfHashAlgo)
                             + Len(fed[last.who].later)

-----------------------------------------------------------------------------
(* tls13CheckDuplicateKeyShare *)

\* Named groups of the key exchange (TlsNamedGroup)
TLS_GROUP_ECDH_X25519 == 29
TLS_GROUP_ECDH_X448 == 30
TLS_GROUP_FFDHE2048 == 256
TLS_GROUP_FFDHE3072 == 257
TLS_GROUP_FFDHE4096 == 258
TLS_GROUP_FFDHE6144 == 259
TLS_GROUP_FFDHE8192 == 260

ERROR_ILLEGAL_PARAMETER == "ERROR_ILLEGAL_PARAMETER"

\* sizeof(Tls13KeyShareEntry): group (2 bytes) and length (2 bytes)
SizeofTls13KeyShareEntry == 4

\* the fields of the key share entry at offset off of p
KeyShareGroupField(p, off) == SubSeq(p, off + 1, off + 2)
KeyShareLengthField(p, off) == SubSeq(p, off + 3, off + 4)

\* what the examination of one entry yields: the status code (NO_ERROR: go on
\* to the next entry) and the offsets of p read
EntryChecked(error, reads) == [error |-> error, reads |-> reads]

\* An examination that compares the group before it checks the length of the
\* key_exchange field
KeyShareEntryCheckGroupFirst(namedGroup, p, off, length) ==
    IF length < SizeofTls13KeyShareEntry
    THEN EntryChecked(ERROR_DECODING_FAILED, {})
    ELSE IF ntohs(KeyShareGroupField(p, off)) = namedGroup
    THEN EntryChecked(ERROR_ILLEGAL_PARAMETER, {off, off + 1})
    ELSE IF length < SizeofTls13KeyShareEntry
                        + ntohs(KeyShareLengthField(p, off))
    THEN EntryChecked(ERROR_DECODING_FAILED, off..(off + 3))
    ELSE EntryChecked(NO_ERROR, off..(off + 3))

\* The body of the loop up to the jump to the next entry: the entry at offset
\* off, length bytes being left to process
KeyShareEntryCheck(namedGroup, p, off, length) ==
    IF length < SizeofTls13KeyShareEntry
    THEN EntryChecked(ERROR_DECODING_FAILED, {})
    ELSE IF length < SizeofTls13KeyShareEntry
                        + ntohs(KeyShareLengthField(p, off))
    THEN EntryChecked(ERROR_DECODING_FAILED, {off + 2, off + 3})
    ELSE IF ntohs(KeyShareGroupField(p, off)) = namedGroup
    THEN EntryChecked(ERROR_ILLEGAL_PARAMETER, off..(off + 3))
    ELSE EntryChecked(NO_ERROR, off..(off + 3))

\* what the call yields: the status code, the offsets of p read, the offsets
\* at which the body of the loop was entered, the values the variable length
\* took (the last one: when the function returned)
Scanned(error, reads, visited, remaining) ==
    [error |-> error, reads |-> reads, visited |-> visited,
     remaining |-> remaining]

\* The loop: p points at offset off, length bytes are left to process
RECURSIVE KeyShareScan(_, _, _, _, _)
KeyShareScan(namedGroup, p, off, length, acc) ==
    IF ~(length > 0)
    THEN Scanned(NO_ERROR, acc.reads, acc.visited, acc.remaining)
    ELSE LET chk == KeyShareEntryCheck(namedGroup, p, off, length)
             reads == acc.reads \cup chk.reads
             visited == Append(acc.visited, off)
         IN  IF chk.error # NO_ERROR
             THEN Scanned(chk.error, reads, visited, acc.remaining)
             ELSE LET size == SizeofTls13KeyShareEntry
                                + ntohs(KeyShareLengthField(p, off))
                  IN  KeyShareScan(namedGroup, p, off + size, length - size,
                          Scanned(NO_ERROR, reads, visited,
                                  Append(acc.remaining, length - size)))

\* A check that looks at the first entry of the list only
CheckDuplicateKeyShareFirstEntry(namedGroup, p, length) ==
    IF ~(length > 0) THEN Scanned(NO_ERROR, {}, <<>>, <<length>>)
    ELSE LET chk == KeyShareEntryCheck(namedGroup, p, 0, length)
         IN  Scanned(chk.error, chk.reads, <<0>>, <<length>>)

tls13CheckDuplicateKeyShare(namedGroup, p, length) ==
    KeyShareScan(namedGroup, p, 0, length,
                 Scanned(NO_ERROR, {}, <<>>, <<length>>))

-----------------------------------------------------------------------------
(* tls13ParseCertExtensions *)

\* sizeof(TlsExtensionList): length (2 bytes)
SizeofTlsExtensionList == 2

ERROR_UNSUPPORTED_EXTENSION == "ERROR_UNSUPPORTED_EXTENSION"

\* tlsParseHelloExtensions(TLS_TYPE_CERTIFICATE, p, n, &extensions) and
\* tlsCheckHelloExtensions(TLS_TYPE_CERTIFICATE, TLS_VERSION_1_3,
\* &extensions): the status codes they return for the n bytes they are given
ParseEnvOk == [parse |-> NO_ERROR, check |-> NO_ERROR]
ParseEnvs == {ParseEnvOk,
              [ParseEnvOk EXCEPT !.parse = ERROR_DECODING_FAILED],
              [ParseEnvOk EXCEPT !.check = ERROR_UNSUPPORTED_EXTENSION]}

ExtensionListLengthField(p) == SubSeq(p, 1, 2)

\* what the two length checks yield: the status code, the length of the list
\* with its length field (-1: not retrieved), the offsets of p read
ListLength(error, n, reads) == [error |-> error, n |-> n, reads |-> reads]

\* A retrieval of the length of the list that does not compare it with the
\* number of bytes available
CertExtensionsLengthUnchecked(p, length) ==
    IF length < SizeofTlsExtensionList
    THEN ListLength(ERROR_DECODING_FAILED, -1, {})
    ELSE ListLength(NO_ERROR,
             SizeofTlsExtensionList + ntohs(ExtensionListLengthField(p)),
             {0, 1})

\* Malformed CertificateEntry? Retrieve the length of the list
CertExtensionsLength(p, length) ==
    IF length < SizeofTlsExtensionList
    THEN ListLength(ERROR_DECODING_FAILED, -1, {})
    ELSE LET n == SizeofTlsExtensionList + ntohs(ExtensionListLengthField(p))
         IN  IF length < n
             THEN ListLength(ERROR_DECODING_FAILED, -1, {0, 1})
             ELSE ListLength(NO_ERROR, n, {0, 1})

\* what the call yields: the status code, the value stored in *consumed (-1:
\* not written), the offsets of p read by the function and its collaborators,
\* the collaborators called
ExtensionsParsed(error, consumed, reads, events) ==
    [error |-> error, consumed |-> consumed, reads |-> reads,
     events |-> events]

tls13ParseCertExtensions(p, length, env) ==
    LET len == CertExtensionsLength(p, length)
    IN  IF len.error # NO_ERROR
        THEN ExtensionsParsed(len.error, -1, len.reads, <<>>)
        ELSE LET given == 0..(len.n - 1)
                 parse == <<Event("tlsParseHelloExtensions", len.n, env.parse)>>
                 check == <<Event("tlsCheckHelloExtensions", NULL, env.check)>>
             IN  IF env.parse # NO_ERROR
                 THEN ExtensionsParsed(env.parse, -1, len.reads \cup given, parse)
                 ELSE IF env.check # NO_ERROR
                 THEN ExtensionsParsed(env.check, -1, len.reads \cup given,
                                       parse \o check)
                 ELSE ExtensionsParsed(NO_ERROR, len.n, len.reads \cup given,
                                       parse \o check)

-----------------------------------------------------------------------------
(* The parser engine: bytes received from the peer are handed to the       *)
(* functions that parse them                                               *)

\* Longest key_exchange field of a key share entry and longest list of
\* extensions sent
MaxKeyLen == 1
\* Number of key share entries of a list
MaxEntries == 2

\* a key share entry that declares n bytes of key_exchange and carries m
KeyShareEntry(group, n, m) == HTONS(group) \o HTONS(n) \o FillerValue(m)

KeyShareEntries ==
    {KeyShareEntry(g, n, m) :
        g \in {TLS_GROUP_SECP256R1, TLS_GROUP_SECP384R1},
        n \in 0..MaxKeyLen, m \in 0..MaxKeyLen}
    \cup {KeyShareEntry(TLS_GROUP_SECP256R1, 65535, MaxKeyLen)}

RECURSIVE KeyShareListsOf(_)
KeyShareListsOf(k) ==
    IF k = 0 THEN {<<>>}
    ELSE {l \o entry : l \in KeyShareListsOf(k - 1), entry \in KeyShareEntries}
            \cup KeyShareListsOf(k - 1)

\* The lists of key share entries a peer sends: up to MaxEntries entries,
\* well-formed or not, and what is left of them when they are cut short
KeyShareLists ==
    UNION {{SubSeq(l, 1, k) : k \in 0..Len(l)} : l \in KeyShareListsOf(MaxEntries)}

\* The lists of extensions of a CertificateEntry a peer sends: a length field
\* and bytes, as many as declared or not, and a list cut short
ExtensionLists ==
    {HTONS(n) \o FillerValue(m) : n \in 0..(MaxKeyLen + 1), m \in 0..(MaxKeyLen + 1)}
        \cup {<<>>, <<0>>}

\* The groups the list is probed for
ProbeGroups == {TLS_GROUP_SECP256R1, TLS_GROUP_SECP384R1, TLS_GROUP_ECDH_X25519}

\* An endpoint that has parsed the peer's certificate receives bytes from the
\* peer
InitParse ==
    \E pc \in {PeerConfig(TLS_CERT_RSA_SIGN, NULL),
               PeerConfig(TLS_CERT_ED25519_SIGN, NULL)},
       t \in Endpoints :
        /\ build = [hashes |-> Tls13Hashes]
        /\ ctx = [e \in Endpoints |-> WithPeerCertificate(DefaultContext(e), pc, 1)]
        /\ \E p \in AdversaryRecords(ctx[t]) \cup KeyShareLists \cup ExtensionLists :
                wire = InFlight(t, p, Len(p))
        /\ last = NoCall
        /\ prev = NoCall
        /\ hello = NoHello
        /\ fed = NothingFed

\* Endpoint e checks the bytes in flight to it, as the list of key share
\* entries that follows an entry of some group, for an entry of that group
CheckDuplicateKeyShare(e) ==
    /\ wire.to = e
    /\ \E namedGroup \in ProbeGroups :
        \E r \in {tls13CheckDuplicateKeyShare(namedGroup, wire.p, wire.length)} :
            /\ last' = [op |-> "checkDuplicateKeyShare", who |-> e,
                        before |-> ctx[e], namedGroup |-> namedGroup,
                        p |-> wire.p, length |-> wire.length,
                        error |-> r.error, reads |-> r.reads,
                        visited |-> r.visited, remaining |-> r.remaining]
            /\ wire' = InFlight("nobody", <<>>, 0)
            /\ prev' = NoCall
            /\ UNCHANGED <<ctx, build, hello, fed>>

\* Endpoint e parses the bytes in flight to it as the extensions of a
\* CertificateEntry
ParseCertExtensions(e) ==
    /\ wire.to = e
    /\ \E env \in ParseEnvs :
        \E r \in {tls13ParseCertExtensions(wire.p, wire.length, env)} :
            /\ last' = [op |-> "parseCertExtensions", who |-> e,
                        before |-> ctx[e], p |-> wire.p,
                        length |-> wire.length, error |-> r.error,
                        consumed |-> r.consumed, reads |-> r.reads,
                        events |-> r.events]
            /\ wire' = InFlight("nobody", <<>>, 0)
            /\ prev' = NoCall
            /\ UNCHANGED <<ctx, build, hello, fed>>

NextParse ==
    \E e \in Endpoints :
        Verify(e) \/ CheckDuplicateKeyShare(e) \/ ParseCertExtensions(e)

SpecParse == InitParse /\ [][NextParse]_vars

-----------------------------------------------------------------------------
(* Properties of the parser engine *)

\* the group and the declared key_exchange length of the entry at offset off
EntryGroup(p, off) == p[off + 1] * 256 + p[off + 2]
DeclaredKeyLength(p, off) == p[off + 3] * 256 + p[off + 4]

\* the header of the entry at offset off and the key_exchange bytes it
\* declares lie within p
EntryFits(p, off) ==
    /\ off + 4 <= Len(p)
    /\ off + 4 + DeclaredKeyLength(p, off) <= Len(p)

\* the offsets of the entries of p from offset off on, up to the first entry
\* that does not lie within p
RECURSIVE EntryChain(_, _)
EntryChain(p, off) ==
    IF off < Len(p) /\ EntryFits(p, off)
    THEN <<off>> \o EntryChain(p, off + 4 + DeclaredKeyLength(p, off))
    ELSE <<>>

\* p is a list of well-formed entries and nothing else
WellFormedList(p) ==
    LET chain == EntryChain(p, 0)
    IN  IF chain = <<>> THEN Len(p) = 0
        ELSE LET o == chain[Len(chain)]
             IN  o + 4 + DeclaredKeyLength(p, o) = Len(p)

\* the groups of the entries of a well-formed list
GroupsOf(p) ==
    LET chain == EntryChain(p, 0)
    IN  {EntryGroup(p, chain[i]) : i \in 1..Len(chain)}

\* C12: tls13CheckDuplicateKeyShare scans the entries in order and stops at
\* the first entry that decides the result: DecodingFailed if fewer than 4
\* bytes remain for the header or the declared key_exchange length exceeds the
\* bytes that remain after the header (whatever the group of that entry: its
\* group is not read), IllegalParameter if the entry is well-formed and its
\* group is the probed group; it returns success exactly when every entry is
\* well-formed and none has the probed group (the empty list included), and
\* it changes no state.
C12_CheckDuplicateKeyShare ==
    last.op = "checkDuplicateKeyShare" =>
        LET p == last.p
            g == last.namedGroup
            v == last.visited
            n == Len(v)
        IN  /\ n > 0 => v[1] = 0
            /\ \A i \in 1..n : v[i] < Len(p)
            /\ \A i \in 1..(n - 1) :
                    /\ EntryFits(p, v[i])
                    /\ EntryGroup(p, v[i]) # g
                    /\ v[i + 1] = v[i] + 4 + DeclaredKeyLength(p, v[i])
            /\ last.error \in {NO_ERROR, ERROR_DECODING_FAILED,
                               ERROR_ILLEGAL_PARAMETER}
            /\ last.error = NO_ERROR =>
                    \/ n = 0 /\ Len(p) = 0
                    \/ /\ n > 0
                       /\ EntryFits(p, v[n])
                       /\ EntryGroup(p, v[n]) # g
                       /\ v[n] + 4 + DeclaredKeyLength(p, v[n]) = Len(p)
            /\ last.error # NO_ERROR =>
                    /\ n > 0
                    /\ last.error = ERROR_DECODING_FAILED <=> ~EntryFits(p, v[n])
                    /\ last.error = ERROR_ILLEGAL_PARAMETER <=>
                            (EntryFits(p, v[n]) /\ EntryGroup(p, v[n]) = g)
                    /\ last.error = ERROR_DECODING_FAILED =>
                            last.reads \cap {v[n], v[n] + 1} = {}
            /\ last.error = NO_ERROR <=>
                    (WellFormedList(p) /\ g \notin GroupsOf(p))
            /\ ctx[last.who] = last.before
            /\ wire.to = "nobody"

\* C12, its case: the second entry has the probed group and declares more
\* key_exchange bytes than remain
C12_Witness ==
    /\ last.op = "checkDuplicateKeyShare"
    /\ last.namedGroup = TLS_GROUP_SECP256R1
    /\ last.p = KeyShareEntry(TLS_GROUP_SECP384R1, 1, 1)
                    \o KeyShareEntry(TLS_GROUP_SECP256R1, 1, 0)
    /\ last.visited = <<0, 5>>
    /\ last.error = ERROR_DECODING_FAILED

\* two entries of a well-formed list have the same group
HasDuplicateGroups(p) ==
    LET chain == EntryChain(p, 0)
    IN  \E i, j \in 1..Len(chain) :
            i # j /\ EntryGroup(p, chain[i]) = EntryGroup(p, chain[j])

\* C13 as claimed: for any probed group and any well-formed list, the result
\* is IllegalParameter if two entries of the list have the same group, and
\* success if the groups of the list are all distinct.
C13_AsClaimed ==
    (last.op = "checkDuplicateKeyShare" /\ WellFormedList(last.p)) =>
        /\ HasDuplicateGroups(last.p) => last.error = ERROR_ILLEGAL_PARAMETER
        /\ ~HasDuplicateGroups(last.p) => last.error = NO_ERROR

\* the bytes of p from offset off on
From(p, off) == SubSeq(p, off + 1, Len(p))

\* C13, amended: for any probed group and any well-formed list, the result is
\* IllegalParameter exactly when an entry of the list has the probed group,
\* and success otherwise, whether or not two entries of the list have the
\* same group; two entries of a list have the same group exactly when the
\* check of the entries that follow some entry, probed for the group of that
\* entry, gives IllegalParameter.
C13_ProbedGroupOnly ==
    (last.op = "checkDuplicateKeyShare" /\ WellFormedList(last.p)) =>
        LET p == last.p
            chain == EntryChain(p, 0)
            next(i) == chain[i] + 4 + DeclaredKeyLength(p, chain[i])
        IN  /\ last.error = ERROR_ILLEGAL_PARAMETER <=>
                    last.namedGroup \in GroupsOf(p)
            /\ last.error = NO_ERROR <=> last.namedGroup \notin GroupsOf(p)
            /\ HasDuplicateGroups(p) <=>
                    \E i \in 1..Len(chain) :
                        tls13CheckDuplicateKeyShare(EntryGroup(p, chain[i]),
                            From(p, next(i)), Len(p) - next(i)).error
                          = ERROR_ILLEGAL_PARAMETER

\* C13, its case: a list of two entries of one group, probed for another
\* group, passes the check
C13_Witness ==
    /\ last.op = "checkDuplicateKeyShare"
    /\ last.namedGroup = TLS_GROUP_ECDH_X25519
    /\ last.p = KeyShareEntry(TLS_GROUP_SECP256R1, 1, 1)
                    \o KeyShareEntry(TLS_GROUP_SECP256R1, 0, 0)
    /\ HasDuplicateGroups(last.p)
    /\ last.error = NO_ERROR

-----------------------------------------------------------------------------
(* tls13IsGroupSupported, tls13IsEcdheGroupSupported,                      *)
(* tls13IsFfdheGroupSupported                                              *)

\* The configuration of the key exchange in the library configuration:
\* ecdheKe: TLS13_ECDHE_KE_SUPPORT or TLS13_PSK_ECDHE_KE_SUPPORT is ENABLED
\* dheKe:   TLS13_DHE_KE_SUPPORT or TLS13_PSK_DHE_KE_SUPPORT is ENABLED
\* ffdhe:   TLS_FFDHE_SUPPORT is ENABLED
\* curves, ffdheGroups: the named groups tlsGetCurveInfo and tlsGetFfdheGroup
\* resolve
KexBuild(ecdheKe, dheKe, ffdhe, curves, ffdheGroups) ==
    [hashes |-> Tls13Hashes, ecdheKe |-> ecdheKe, dheKe |-> dheKe,
     ffdhe |-> ffdhe, curves |-> curves, ffdheGroups |-> ffdheGroups]

\* tlsGetCurveInfo, tlsGetFfdheGroup: the parameters of the group, else NULL
tlsGetCurveInfo(c, namedGroup) ==
    IF namedGroup \in build.curves THEN Ptr(namedGroup) ELSE NullPtr
tlsGetFfdheGroup(c, namedGroup) ==
    IF namedGroup \in build.ffdheGroups THEN Ptr(namedGroup) ELSE NullPtr

\* A check that accepts every curve tlsGetCurveInfo resolves
tls13IsEcdheGroupSupportedAnyCurve(c, namedGroup) ==
    /\ build.ecdheKe
    /\ tlsGetCurveInfo(c, namedGroup) # NullPtr

\* Check whether a given ECDHE group is supported
tls13IsEcdheGroupSupported(c, namedGroup) ==
    /\ build.ecdheKe
    /\ \/ namedGroup = TLS_GROUP_SECP224R1
       \/ namedGroup = TLS_GROUP_SECP256R1
       \/ namedGroup = TLS_GROUP_SECP384R1
       \/ namedGroup = TLS_GROUP_SECP521R1
       \/ namedGroup = TLS_GROUP_ECDH_X25519
       \/ namedGroup = TLS_GROUP_ECDH_X448
    /\ tlsGetCurveInfo(c, namedGroup) # NullPtr

\* Check whether a given FFDHE group is supported
tls13IsFfdheGroupSupported(c, namedGroup) ==
    /\ build.dheKe
    /\ \/ namedGroup = TLS_GROUP_FFDHE2048
       \/ namedGroup = TLS_GROUP_FFDHE3072
       \/ namedGroup = TLS_GROUP_FFDHE4096
       \/ namedGroup = TLS_GROUP_FFDHE6144
       \/ namedGroup = TLS_GROUP_FFDHE8192
    /\ build.ffdhe
    /\ tlsGetFfdheGroup(c, namedGroup) # NullPtr

\* Check whether a given named group is supported
tls13IsGroupSupported(c, namedGroup) ==
    IF tls13IsEcdheGroupSupported(c, namedGroup) THEN TRUE
    ELSE IF tls13IsFfdheGroupSupported(c, namedGroup) THEN TRUE
    ELSE FALSE

-----------------------------------------------------------------------------
(* tls13GenerateKeyShare *)

ERROR_HANDSHAKE_FAILED == "ERROR_HANDSHAKE_FAILED"

\* The outcome of the collaborators of a key exchange call: the status code
\* each returns
KexEnvOk == [load |-> NO_ERROR, generate |-> NO_ERROR, import |-> NO_ERROR,
             check |-> NO_ERROR, compute |-> NO_ERROR]
KexEnvs == {KexEnvOk,
            [KexEnvOk EXCEPT !.load = ERROR_OUT_OF_MEMORY],
            [KexEnvOk EXCEPT !.generate = ERROR_FAILURE],
            [KexEnvOk EXCEPT !.import = ERROR_DECODING_FAILED],
            [KexEnvOk EXCEPT !.check = ERROR_ILLEGAL_PARAMETER],
            [KexEnvOk EXCEPT !.compute = ERROR_FAILURE]}

\* the private key the pseudo-random generator yields
PrivateKeyOf(namedGroup) == 1 + (namedGroup % 2)

\* domain parameters whose loading failed (their content is not specified)
ParamsIndeterminate == 0 - 1

\* what the call yields: the status code, the context after the call, the
\* collaborators called
KeyShareResult(error, context, events) ==
    [error |-> error, context |-> context, events |-> events]

\* An elliptic curve path that saves the named group once the key pair is
\* generated
KeyShareEcdheRecordLast(c, namedGroup, env) ==
    LET curveInfo == tlsGetCurveInfo(c, namedGroup)
        load == <<Event("ecLoadDomainParameters", namedGroup, env.load)>>
        generate == <<Event("ecdhGenerateKeyPair", namedGroup, env.generate)>>
    IN  IF curveInfo = NullPtr
        THEN KeyShareResult(ERROR_ILLEGAL_PARAMETER, c, <<>>)
        ELSE IF env.load # NO_ERROR
        THEN KeyShareResult(env.load,
                 [c EXCEPT !.ecdhContext.params = ParamsIndeterminate], load)
        ELSE IF env.generate # NO_ERROR
        THEN KeyShareResult(env.generate,
                 [c EXCEPT !.ecdhContext.params = curveInfo[1]],
                 load \o generate)
        ELSE KeyShareResult(NO_ERROR,
                 [c EXCEPT !.namedGroup = namedGroup,
                           !.ecdhContext.params = curveInfo[1],
                           !.ecdhContext.da = PrivateKeyOf(namedGroup)],
                 load \o generate)

\* Elliptic curve group: retrieve the curve, save the named group, load the
\* domain parameters, generate an ephemeral key pair
KeyShareEcdhe(c, namedGroup, env) ==
    LET curveInfo == tlsGetCurveInfo(c, namedGroup)
    IN  IF curveInfo # NullPtr
        THEN LET c1 == [c EXCEPT !.namedGroup = namedGroup]
                 load == <<Event("ecLoadDomainParameters", namedGroup, env.load)>>
             IN  IF env.load # NO_ERROR
                 THEN KeyShareResult(env.load,
                          [c1 EXCEPT !.ecdhContext.params = ParamsIndeterminate],
                          load)
                 ELSE LET c2 == [c1 EXCEPT !.ecdhContext.params = curveInfo[1]]
                          generate == <<Event("ecdhGenerateKeyPair", namedGroup,
                                              env.generate)>>
                      IN  IF env.generate # NO_ERROR
                          THEN KeyShareResult(env.generate, c2, load \o generate)
                          ELSE KeyShareResult(NO_ERROR,
                                   [c2 EXCEPT !.ecdhContext.da =
                                              PrivateKeyOf(namedGroup)],
                                   load \o generate)
        ELSE KeyShareResult(ERROR_ILLEGAL_PARAMETER, c, <<>>)

\* Finite field group: get the FFDHE parameters, save the named group, load
\* the parameters, generate an ephemeral key pair
KeyShareFfdhe(c, namedGroup, env) ==
    LET ffdheGroup == IF build.ffdhe THEN tlsGetFfdheGroup(c, namedGroup)
                      ELSE NullPtr
    IN  IF build.ffdhe /\ ffdheGroup # NullPtr
        THEN LET c1 == [c EXCEPT !.namedGroup = namedGroup]
                 load == <<Event("tlsLoadFfdheParameters", namedGroup, env.load)>>
             IN  IF env.load # NO_ERROR
                 THEN KeyShareResult(env.load,
                          [c1 EXCEPT !.dhContext.params = ParamsIndeterminate],
                          load)
                 ELSE LET c2 == [c1 EXCEPT !.dhContext.params = ffdheGroup[1]]
                          generate == <<Event("dhGenerateKeyPair", namedGroup,
                                              env.generate)>>
                      IN  IF env.generate # NO_ERROR
                          THEN KeyShareResult(env.generate, c2, load \o generate)
                          ELSE KeyShareResult(NO_ERROR,
                                   [c2 EXCEPT !.dhContext.xa =
                                              PrivateKeyOf(namedGroup)],
                                   load \o generate)
        ELSE KeyShareResult(ERROR_ILLEGAL_PARAMETER, c, <<>>)

\* A key share generation that saves the named group before it classifies it
GenerateKeyShareRecordFirst(c, namedGroup, env) ==
    LET c0 == [c EXCEPT !.namedGroup = namedGroup]
    IN  IF build.ecdheKe /\ tls13IsEcdheGroupSupported(c, namedGroup)
        THEN KeyShareEcdhe(c0, namedGroup, env)
        ELSE IF build.dheKe /\ tls13IsFfdheGroupSupported(c, namedGroup)
        THEN KeyShareFfdhe(c0, namedGroup, env)
        ELSE KeyShareResult(ERROR_ILLEGAL_PARAMETER, c0, <<>>)

tls13GenerateKeyShare(c, namedGroup, env) ==
    IF build.ecdheKe /\ tls13IsEcdheGroupSupported(c, namedGroup)
    THEN KeyShareEcdhe(c, namedGroup, env)
    ELSE IF build.dheKe /\ tls13IsFfdheGroupSupported(c, namedGroup)
    THEN KeyShareFfdhe(c, namedGroup, env)
    ELSE KeyShareResult(ERROR_ILLEGAL_PARAMETER, c, <<>>)

-----------------------------------------------------------------------------
(* tls13GenerateSharedSecret *)

\* ecImport, mpiImport: the public key the peer's bytes encode
PublicKeyOf(keyShare, length) == Mix(16, SubSeq(keyShare, 1, length))

\* ecdhComputeSharedSecret, dhComputeSharedSecret: the shared secret of the
\* local private key and the peer's public key under the loaded parameters
SharedSecretOf(params, private, public) ==
    <<(params * 7 + private * 3 + public * 5 + 256) % 251>>

\* Elliptic curve group: read the peer's public key, verify it, calculate the
\* shared secret
SharedSecretEcdhe(c, keyShare, length, env) ==
    LET import == <<Event("ecImport", length, env.import)>>
        check == <<Event("ecdhCheckPublicKey", 0, env.check)>>
        compute == <<Event("ecdhComputeSharedSecret", 0, env.compute)>>
    IN  IF env.import # NO_ERROR
        THEN KeyShareResult(env.import, c, import)
        ELSE LET c1 == [c EXCEPT !.ecdhContext.qb =
                                    PublicKeyOf(keyShare, length)]
             IN  IF env.check # NO_ERROR
                 THEN KeyShareResult(env.check, c1, import \o check)
                 ELSE IF env.compute # NO_ERROR
                 THEN KeyShareResult(env.compute, c1,
                                     import \o check \o compute)
                 ELSE LET z == SharedSecretOf(c1.ecdhContext.params,
                                   c1.ecdhContext.da, c1.ecdhContext.qb)
                      IN  KeyShareResult(NO_ERROR,
                              [c1 EXCEPT !.premasterSecret = z,
                                         !.premasterSecretLen = Len(z)],
                              import \o check \o compute)

\* Finite field group: read the peer's public key, verify it, calculate the
\* shared secret
SharedSecretFfdhe(c, keyShare, length, env) ==
    LET import == <<Event("mpiImport", length, env.import)>>
        check == <<Event("dhCheckPublicKey", 0, env.check)>>
        compute == <<Event("dhComputeSharedSecret", 0, env.compute)>>
    IN  IF ~build.ffdhe
        THEN KeyShareResult(ERROR_HANDSHAKE_FAILED, c, <<>>)
        ELSE IF env.import # NO_ERROR
        THEN KeyShareResult(env.import, c, import)
        ELSE LET c1 == [c EXCEPT !.dhContext.yb =
                                    PublicKeyOf(keyShare, length)]
             IN  IF env.check # NO_ERROR
                 THEN KeyShareResult(env.check, c1, import \o check)
                 ELSE IF env.compute # NO_ERROR
                 THEN KeyShareResult(env.compute, c1,
                                     import \o check \o compute)
                 ELSE LET z == SharedSecretOf(c1.dhContext.params,
                                   c1.dhContext.xa, c1.dhContext.yb)
                      IN  KeyShareResult(NO_ERROR,
                              [c1 EXCEPT !.premasterSecret = z,
                                         !.premasterSecretLen = Len(z)],
                              import \o check \o compute)

\* the format byte of an uncompressed elliptic curve point
EcPointUncompressed == 4

\* A shared secret generation that takes an uncompressed point for the public
\* key of an elliptic curve group, whatever the group of the context
GenerateSharedSecretByKeyShare(c, keyShare, length, env) ==
    IF length > 0 /\ keyShare[1] = EcPointUncompressed
    THEN SharedSecretEcdhe(c, keyShare, length, env)
    ELSE IF build.dheKe /\ tls13IsFfdheGroupSupported(c, c.namedGroup)
    THEN SharedSecretFfdhe(c, keyShare, length, env)
    ELSE KeyShareResult(ERROR_HANDSHAKE_FAILED, c, <<>>)

tls13GenerateSharedSecret(c, keyShare, length, env) ==
    IF build.ecdheKe /\ tls13IsEcdheGroupSupported(c, c.namedGroup)
    THEN SharedSecretEcdhe(c, keyShare, length, env)
    ELSE IF build.dheKe /\ tls13IsFfdheGroupSupported(c, c.namedGroup)
    THEN SharedSecretFfdhe(c, keyShare, length, env)
    ELSE KeyShareResult(ERROR_HANDSHAKE_FAILED, c, <<>>)

-----------------------------------------------------------------------------
(* The key exchange engine: the named group checks, tls13GenerateKeyShare  *)
(* and tls13GenerateSharedSecret on one connection, under every            *)
(* configuration of the key exchange                                       *)

\* the largest group identifier below 65535 the checks are compared on
MaxGroupId == 261

TLS_GROUP_SECP256K1 == 22
TLS_GROUP_MAX == 65535

EcdheGroups == {TLS_GROUP_SECP224R1, TLS_GROUP_SECP256R1, TLS_GROUP_SECP384R1,
                TLS_GROUP_SECP521R1, TLS_GROUP_ECDH_X25519, TLS_GROUP_ECDH_X448}
FfdheGroups == {TLS_GROUP_FFDHE2048, TLS_GROUP_FFDHE3072, TLS_GROUP_FFDHE4096,
                TLS_GROUP_FFDHE6144, TLS_GROUP_FFDHE8192}

\* Everything enabled; ECDHE key exchange only, with some of the curves;
\* DHE key exchange without FFDHE support; both key exchanges with one
\* finite field group and no curve
KexBuilds ==
    {KexBuild(TRUE, TRUE, TRUE, EcdheGroups \cup {TLS_GROUP_SECP256K1},
              FfdheGroups),
     KexBuild(TRUE, FALSE, TRUE,
              {TLS_GROUP_SECP256K1, TLS_GROUP_SECP256R1, TLS_GROUP_ECDH_X25519},
              FfdheGroups),
     KexBuild(FALSE, TRUE, FALSE, EcdheGroups \cup {TLS_GROUP_SECP256K1}, {}),
     KexBuild(TRUE, TRUE, TRUE, {}, {TLS_GROUP_FFDHE2048})}

\* the named groups the calls are made with
KexGroups == {TLS_GROUP_NONE, TLS_GROUP_SECP256K1, TLS_GROUP_SECP256R1,
              TLS_GROUP_FFDHE2048, TLS_GROUP_MAX}

\* the key shares of the peer: an uncompressed point, an integer
PeerKeyShares == {<<EcPointUncompressed, 1>>, <<7>>}

\* A connection on which no key share was generated yet, and the key share of
\* the peer in flight to one endpoint
InitKex ==
    \E b \in KexBuilds, t \in Endpoints, keyShare \in PeerKeyShares :
        /\ build = b
        /\ ctx = [e \in Endpoints |-> DefaultContext(e)]
        /\ wire = InFlight(t, keyShare, Len(keyShare))
        /\ last = NoCall
        /\ prev = NoCall
        /\ hello = NoHello
        /\ fed = NothingFed

\* Endpoint e checks whether a named group is supported, and of which kind
IsGroupSupported(e) ==
    /\ wire.to = e
    /\ \E namedGroup \in KexGroups :
        /\ last' = [op |-> "isGroupSupported", who |-> e, before |-> ctx[e],
                    namedGroup |-> namedGroup,
                    supported |-> tls13IsGroupSupported(ctx[e], namedGroup),
                    ecdhe |-> tls13IsEcdheGroupSupported(ctx[e], namedGroup),
                    ffdhe |-> tls13IsFfdheGroupSupported(ctx[e], namedGroup)]
        /\ UNCHANGED <<ctx, build, wire, prev, hello, fed>>

\* Endpoint e generates its key share for a named group; prev keeps the most
\* recent of these calls whose group was supported
GenerateKeyShare(e) ==
    /\ wire.to = e
    /\ \E namedGroup \in KexGroups, env \in KexEnvs :
        \E r \in {tls13GenerateKeyShare(ctx[e], namedGroup, env)} :
            /\ ctx' = [ctx EXCEPT ![e] = r.context]
            /\ last' = [op |-> "generateKeyShare", who |-> e,
                        before |-> ctx[e], namedGroup |-> namedGroup,
                        error |-> r.error, events |-> r.events]
            /\ prev' = IF tls13IsGroupSupported(ctx[e], namedGroup)
                       THEN [op |-> "generateKeyShare", who |-> e,
                             namedGroup |-> namedGroup, error |-> r.error]
                       ELSE prev
            /\ UNCHANGED <<build, wire, hello, fed>>

\* Endpoint e computes the shared secret from the key share of the peer
GenerateSharedSecret(e) ==
    /\ wire.to = e
    /\ \E env \in KexEnvs :
        \E r \in {tls13GenerateSharedSecret(ctx[e], wire.p, wire.length, env)} :
            /\ ctx' = [ctx EXCEPT ![e] = r.context]
            /\ last' = [op |-> "generateSharedSecret", who |-> e,
                        before |-> ctx[e], keyShare |-> wire.p,
                        length |-> wire.length,
                        error |-> r.error, events |-> r.events]
            /\ UNCHANGED <<build, wire, prev, hello, fed>>

NextKex ==
    \E e \in Endpoints :
        \/ IsGroupSupported(e)
        \/ GenerateKeyShare(e)
        \/ GenerateSharedSecret(e)

SpecKex == InitKex /\ [][NextKex]_vars

-----------------------------------------------------------------------------
(* Properties of the key exchange engine *)

\* the group identifiers the checks are compared on
GroupIds == 0..MaxGroupId \cup {TLS_GROUP_MAX}

\* C14: the named groups are partitioned: for every group identifier and
\* every configuration, tls13IsEcdheGroupSupported and
\* tls13IsFfdheGroupSupported are never both true, and tls13IsGroupSupported
\* is true exactly when one of them is. The ECDHE check is true only for
\* secp224r1, secp256r1, secp384r1, secp521r1, x25519 and x448, and only when
\* the curve registry resolves the group; the FFDHE check is true only for
\* ffdhe2048 to ffdhe8192, and only when the finite field registry resolves
\* the group, never when finite field support is disabled.
C14_GroupPartition ==
    last.op = "isGroupSupported" =>
        /\ ~(last.ecdhe /\ last.ffdhe)
        /\ last.supported <=> (last.ecdhe \/ last.ffdhe)
        /\ ctx[last.who] = last.before
        /\ \A g \in GroupIds :
            LET ecdhe == tls13IsEcdheGroupSupported(last.before, g)
                ffdhe == tls13IsFfdheGroupSupported(last.before, g)
            IN  /\ ~(ecdhe /\ ffdhe)
                /\ tls13IsGroupSupported(last.before, g) <=> (ecdhe \/ ffdhe)
                /\ ecdhe => /\ g \in {21, 23, 24, 25, 29, 30}
                            /\ g \in build.curves
                /\ ffdhe => /\ g \in 256..260
                            /\ g \in build.ffdheGroups
                            /\ build.ffdhe
                            /\ build.dheKe

\* C14, its case: a curve the registry resolves that is not an ECDHE group of
\* TLS 1.3 was checked, on a connection whose group is a finite field one
C14_Witness ==
    /\ last.op = "isGroupSupported"
    /\ last.namedGroup = TLS_GROUP_SECP256K1
    /\ last.namedGroup \in build.curves
    /\ build.ecdheKe
    /\ ~last.supported
    /\ tls13IsFfdheGroupSupported(ctx[last.who], ctx[last.who].namedGroup)
    /\ tls13IsEcdheGroupSupported(ctx[last.who], TLS_GROUP_ECDH_X25519)
    /\ ~tls13IsEcdheGroupSupported(ctx[last.who], MaxGroupId)

\* C15: tls13GenerateKeyShare called with a group that is not supported
\* (neither a supported elliptic curve group nor a supported finite field
\* group) returns ERROR_ILLEGAL_PARAMETER, leaves the named group of the
\* context at its previous value and generates no key pair: no collaborator
\* is called and the key exchange contexts are the ones before the call.
C15_UnsupportedGroupRejected ==
    (/\ last.op = "generateKeyShare"
     /\ ~tls13IsEcdheGroupSupported(last.before, last.namedGroup)
     /\ ~tls13IsFfdheGroupSupported(last.before, last.namedGroup)) =>
        /\ last.error = ERROR_ILLEGAL_PARAMETER
        /\ ctx[last.who].namedGroup = last.before.namedGroup
        /\ ctx[last.who].ecdhContext = last.before.ecdhContext
        /\ ctx[last.who].dhContext = last.before.dhContext
        /\ last.events = <<>>

\* C15, its case: after a key share was generated for a supported group, a
\* call with a curve that is not an ECDHE group of TLS 1.3 is rejected
C15_Witness ==
    /\ last.op = "generateKeyShare"
    /\ last.namedGroup = TLS_GROUP_SECP256K1
    /\ last.namedGroup \in build.curves
    /\ last.error = ERROR_ILLEGAL_PARAMETER
    /\ last.before.namedGroup = TLS_GROUP_SECP256R1
    /\ ctx[last.who].namedGroup = TLS_GROUP_SECP256R1
    /\ ctx[last.who].ecdhContext.da # 0

\* the kind of the named group recorded in a context
GroupClass(c) ==
    IF /\ build.ecdheKe
       /\ c.namedGroup \in EcdheGroups
       /\ c.namedGroup \in build.curves
    THEN "ecdhe"
    ELSE IF /\ build.dheKe
            /\ build.ffdhe
            /\ c.namedGroup \in FfdheGroups
            /\ c.namedGroup \in build.ffdheGroups
    THEN "ffdhe"
    ELSE "none"

\* the path a shared secret generation took: the kind of the public key it
\* read
PathOf(events) ==
    IF events = <<>> THEN "none"
    ELSE IF events[1].name = "ecImport" THEN "ecdhe"
    ELSE IF events[1].name = "mpiImport" THEN "ffdhe"
    ELSE "other"

\* C16: after any sequence of tls13GenerateKeyShare and
\* tls13GenerateSharedSecret calls, tls13GenerateSharedSecret selects its path
\* (elliptic curve or finite field) only from the named group recorded in the
\* context, never from the bytes of the peer: it takes the path of the
\* recorded group whatever the key share and whatever its collaborators
\* return. It never changes the recorded group. When the recorded group is in
\* neither supported class it returns ERROR_HANDSHAKE_FAILED without writing
\* the premaster secret or its length.
C16_PathFromRecordedGroup ==
    last.op = "generateSharedSecret" =>
        LET c == last.before
        IN  /\ PathOf(last.events) = GroupClass(c)
            /\ \A keyShare \in PeerKeyShares \cup {<<>>}, env \in KexEnvs :
                PathOf(tls13GenerateSharedSecret(c, keyShare, Len(keyShare),
                                                 env).events) = GroupClass(c)
            /\ ctx[last.who].namedGroup = c.namedGroup
            /\ GroupClass(c) = "none" =>
                /\ last.error = ERROR_HANDSHAKE_FAILED
                /\ ctx[last.who].premasterSecret = c.premasterSecret
                /\ ctx[last.who].premasterSecretLen = c.premasterSecretLen
                /\ ctx[last.who] = c

\* C16, its case: a finite field key share was generated after an elliptic
\* curve one, and the shared secret is computed on the finite field path from
\* a key share that is an uncompressed point
C16_Witness ==
    /\ last.op = "generateSharedSecret"
    /\ last.error = NO_ERROR
    /\ last.before.namedGroup = TLS_GROUP_FFDHE2048
    /\ last.before.ecdhContext.da # 0
    /\ last.keyShare[1] = EcPointUncompressed
    /\ PathOf(last.events) = "ffdhe"
    /\ ctx[last.who].premasterSecretLen > 0

\* the kind of a named group under the configuration
ClassOfGroup(namedGroup) == GroupClass([namedGroup |-> namedGroup])

\* C21: after any sequence of tls13GenerateKeyShare calls, the named group of
\* the context is the group of the most recent call whose group was supported
\* and resolved, whether or not that call returned success: the group is
\* saved before the parameters are loaded and the key pair is generated, so
\* that a call that fails in loading the parameters or in generating the key
\* pair leaves the requested group recorded, and a later
\* tls13GenerateSharedSecret takes the path of that group. Before any such
\* call the named group is the initial one.
C21_RecordedGroupIsLatestSupported ==
    /\ prev.op = "generateKeyShare" =>
        /\ ctx[prev.who].namedGroup = prev.namedGroup
        /\ ClassOfGroup(prev.namedGroup) # "none"
    /\ (prev = NoCall /\ wire.to \in Endpoints) =>
        ctx[wire.to].namedGroup = TLS_GROUP_NONE
    /\ last.op = "generateKeyShare" =>
        IF ClassOfGroup(last.namedGroup) # "none"
        THEN /\ ctx[last.who].namedGroup = last.namedGroup
             /\ prev.namedGroup = last.namedGroup
             /\ prev.error = last.error
             /\ last.events # <<>>
             /\ last.error # NO_ERROR =>
                    last.events[Len(last.events)].ret = last.error
        ELSE /\ ctx[last.who].namedGroup = last.before.namedGroup
             /\ prev.op = "generateKeyShare" =>
                    prev.namedGroup = last.before.namedGroup
    /\ (last.op = "generateSharedSecret" /\ prev.op = "generateKeyShare") =>
        PathOf(last.events) = ClassOfGroup(prev.namedGroup)

\* C21, its case: after a finite field key share was generated, a call for an
\* elliptic curve group failed before its key pair was generated; the shared
\* secret is then computed on the elliptic curve path
C21_Witness ==
    /\ last.op = "generateSharedSecret"
    /\ prev.op = "generateKeyShare"
    /\ prev.namedGroup = TLS_GROUP_SECP256R1
    /\ prev.error # NO_ERROR
    /\ last.before.dhContext.xa # 0
    /\ last.before.ecdhContext.params = ParamsIndeterminate
    /\ last.before.ecdhContext.da = 0
    /\ last.before.namedGroup = TLS_GROUP_SECP256R1
    /\ PathOf(last.events) = "ecdhe"

-----------------------------------------------------------------------------
(* The signature engine and the PSK binder engine together: every call that *)
(* allocates                                                                *)

InitAlloc == InitSig \/ InitBinder

NextAlloc == NextSig \/ NextBinder

SpecAlloc == InitAlloc /\ [][NextAlloc]_vars

\* the positions of the successful calls to an acquiring function, and of the
\* calls to a releasing function
Acquired(events, acquire) ==
    {i \in 1..Len(events) : events[i].name = acquire /\ events[i].ret # NULL}
Released(events, release) ==
    {i \in 1..Len(events) : events[i].name = release}

\* every object acquired is released exactly once, after its acquisition, and
\* nothing is released that was not acquired before
Balanced(events, acquire, release) ==
    LET a == Acquired(events, acquire)
        r == Released(events, release)
    IN  /\ \A i \in a :
            Cardinality({j \in r : j > i /\ events[j].ret = events[i].ret}) = 1
        /\ \A j \in r :
            Cardinality({i \in a : i < j /\ events[i].ret = events[j].ret}) = 1
        /\ Cardinality(a) = Cardinality(r)

\* C17: scratch allocations are balanced on every exit path: at the return of
\* tls13ComputePskBinder, tls13GenerateSignature and tls13VerifySignature,
\* whatever the outcome, every buffer the call allocated has been released
\* exactly once and none is released that was not allocated; a failed
\* allocation is followed by no release. In the RSA path of
\* tls13GenerateSignature the private key the call initialised is released
\* on every path.
C17_AllocationsBalanced ==
    last.op \in {"sign", "verify", "binder"} =>
        /\ Balanced(last.events, "tlsAllocMem", "tlsFreeMem")
        /\ Balanced(last.events, "rsaInitPrivateKey", "rsaFreePrivateKey")
        /\ Cardinality(Acquired(last.events, "tlsAllocMem")) <= 1
        /\ last.error = ERROR_OUT_OF_MEMORY /\ ~BinderAllocated(last) =>
                Released(last.events, "tlsFreeMem") = {}

\* C17, its case: a signature whose RSA private key could not be imported,
\* after the buffer was allocated and the private key initialised
C17_Witness ==
    /\ last.op = "sign"
    /\ last.error # NO_ERROR
    /\ \E i \in 1..Len(last.events) :
        /\ last.events[i].name = "pemImportRsaPrivateKey"
        /\ last.events[i].ret # NO_ERROR
    /\ Acquired(last.events, "tlsAllocMem") # {}
    /\ Acquired(last.events, "rsaInitPrivateKey") # {}
    /\ Released(last.events, "rsaFreePrivateKey") # {}
    /\ Released(last.events, "tlsFreeMem") # {}

====
